---- MODULE Spec2Model ----
(***************************************************************************)
(* A model of the yoyo-migrations execution engine (yoyo/migrations.py):   *)
(* MigrationStep, Transaction, Migration, PostApplyHookMigration and       *)
(* MigrationList, run against one DB-API connection.                       *)
(*                                                                         *)
(* The connection is a record                                              *)
(*   work      : what the connection sees (uncommitted work included),     *)
(*   committed : what survives conn.rollback(),                            *)
(*   log       : the calls made on the connection and the records handed   *)
(*               to the logger during the call in progress, in order.      *)
(* work and committed each hold                                            *)
(*   db     : the effects of the step statements, as the sequence of       *)
(*            statements executed; a step's rollback statement executed     *)
(*            directly on top of its own apply statement cancels it (the   *)
(*            rollback action inverts the apply action), any other         *)
(*            statement is kept as an effect of its own;                   *)
(*   ledger : for every migration table, the set of ids it holds (the      *)
(*            ctime column takes no part in any decision of the code).     *)
(*                                                                         *)
(* Every cursor.execute of a step statement may raise DatabaseError: an    *)
(* operation therefore yields the SET of its possible outcomes, each a     *)
(* record [conn, exc] with exc = None when the call returns normally.      *)
(* Steps are SQL text; a step statement that fails changes nothing.        *)
(***************************************************************************)
EXTENDS Integers, Sequences, FiniteSets, TLC

VARIABLES
    migrations,   \* the MigrationList read_migrations returned
    selected,     \* the MigrationList derived from it that the most recent call ran on
    conn,         \* the connection
    last,         \* the most recent call: what was called, how it ended, conn before
    history,      \* per migration id, the most recent call on it that returned normally
    ncalls,       \* the number of calls made so far
    selector,     \* prompt_migrations: its cursor, the choices, the last response
    runs          \* concurrent runs of 'apply' on one database: their views, progress

vars == <<migrations, selected, conn, last, history, ncalls, selector, runs>>

(***************************************************************************)
(* Bounds of the model.                                                    *)
(***************************************************************************)
MaxSteps == 3
MaxTx == 3
MaxMigSteps == 3
MaxMigrations == 2
MaxCalls == 2

(***************************************************************************)
(* Values.                                                                 *)
(***************************************************************************)
None == <<>>

default_migration_table == "_yoyo_migration"

Tables == {default_migration_table, "another_migration_table"}

IgnoreErrors == {"None", "apply", "rollback", "all"}

Min(a, b) == IF a < b THEN a ELSE b

Reverse(s) == [k \in 1..Len(s) |-> s[Len(s) + 1 - k]]

\* MigrationStep.__init__: the step `id` of migration `m`; its statements are
\* named after the step, and `_rollback` is None when no rollback was given.
MigrationStep(m, id, hasRollback) ==
    [id |-> id,
     _apply |-> <<"apply", m, id>>,
     _rollback |-> IF hasRollback THEN <<"rollback", m, id>> ELSE None]

\* Transaction.__init__
Transaction(steps, ignore_errors) == [steps |-> steps, ignore_errors |-> ignore_errors]

\* Migration.__init__ (kind is the class: Migration or PostApplyHookMigration)
Migration(id, steps, kind) == [id |-> id, steps |-> steps, kind |-> kind]

\* MigrationList.__init__
MigrationList(migration_table, items, post_apply) ==
    [items |-> items, post_apply |-> post_apply, migration_table |-> migration_table]

(***************************************************************************)
(* The connection.                                                         *)
(***************************************************************************)
EmptyDatabase == [db |-> <<>>, ledger |-> [t \in Tables |-> {}]]

NewConn == [work |-> EmptyDatabase, committed |-> EmptyDatabase, log |-> <<>>]

Log(c, kind, detail) == [c EXCEPT !.log = Append(@, <<kind, detail>>)]

Return(c) == [conn |-> c, exc |-> None]

Raise(c, exc) == [conn |-> c, exc |-> exc]

\* The effect of one step statement on the data.
Effect(db, stmt) ==
    IF /\ stmt[1] = "rollback"
       /\ db # <<>>
       /\ db[Len(db)] = <<"apply", stmt[2], stmt[3]>>
    THEN SubSeq(db, 1, Len(db) - 1)
    ELSE Append(db, stmt)

\* conn.commit()
ConnCommit(c) == Log([c EXCEPT !.committed = c.work], "commit", None)

\* conn.rollback()
ConnRollback(c) == Log([c EXCEPT !.work = c.committed], "rollback", None)

\* MigrationStep._execute: cursor.execute(stmt) succeeds, or raises DatabaseError.
Execute(c, stmt) ==
    { Return(Log([c EXCEPT !.work.db = Effect(@, stmt)], "execute", stmt)),
      Raise(Log(c, "execute failed", stmt), <<"DatabaseError", stmt>>) }

(***************************************************************************)
(* MigrationStep                                                           *)
(***************************************************************************)
\* MigrationStep.apply
MigrationStepApply(step, c, force) ==
    Execute(Log(c, "applying step", <<step.id>>), step._apply)

\* Mutant: a step without a rollback action refuses to be rolled back.
MigrationStepRollbackRefusing(step, c, force) ==
    LET c1 == Log(c, "rolling back step", <<step.id>>)
    IN  IF step._rollback = None
        THEN {Raise(Log(c1, "execute failed", <<"rollback", step._apply[2], step.id>>),
                    <<"DatabaseError", <<"rollback", step._apply[2], step.id>>>>)}
        ELSE Execute(c1, step._rollback)

\* MigrationStep.rollback: a silent no-op when the step has no rollback action.
MigrationStepRollback(step, c, force) ==
    LET c1 == Log(c, "rolling back step", <<step.id>>)
    IN  IF step._rollback = None THEN {Return(c1)} ELSE Execute(c1, step._rollback)

(***************************************************************************)
(* Transaction                                                             *)
(***************************************************************************)
\* Mutant: the except block without conn.rollback().
TransactionApplyExceptNoRollback(tx, step, c, force, exc) ==
    IF force \/ tx.ignore_errors \in {"apply", "all"}
    THEN Return(Log(c, "Ignored error in step", <<step.id>>))
    ELSE Raise(c, exc)

\* Mutant: the except block swallowing on any ignore_errors policy.
TransactionApplyExceptAnyPolicy(tx, step, c, force, exc) ==
    LET c1 == ConnRollback(c)
    IN  IF force \/ tx.ignore_errors \in {"apply", "rollback", "all"}
        THEN Return(Log(c1, "Ignored error in step", <<step.id>>))
        ELSE Raise(c1, exc)

\* Mutant: the except block swallowing on force alone.
TransactionApplyExceptForceOnly(tx, step, c, force, exc) ==
    LET c1 == ConnRollback(c)
    IN  IF force
        THEN Return(Log(c1, "Ignored error in step", <<step.id>>))
        ELSE Raise(c1, exc)

\* Mutant: the except block committing what the Transaction did so far.
TransactionApplyExceptCommit(tx, step, c, force, exc) ==
    LET c1 == ConnCommit(c)
    IN  IF force \/ tx.ignore_errors \in {"apply", "all"}
        THEN Return(Log(c1, "Ignored error in step", <<step.id>>))
        ELSE Raise(c1, exc)

\* Mutant: the except block swallowing on the policy alone, force unheeded.
TransactionApplyExceptPolicyOnly(tx, step, c, force, exc) ==
    LET c1 == ConnRollback(c)
    IN  IF tx.ignore_errors \in {"apply", "all"}
        THEN Return(Log(c1, "Ignored error in step", <<step.id>>))
        ELSE Raise(c1, exc)

\* Transaction.apply, the except block: roll back, then swallow or re-raise.
TransactionApplyExcept(tx, step, c, force, exc) ==
    LET c1 == ConnRollback(c)
    IN  IF force \/ tx.ignore_errors \in {"apply", "all"}
        THEN Return(Log(c1, "Ignored error in step", <<step.id>>))
        ELSE Raise(c1, exc)

\* Transaction.apply from the k-th step on.
RECURSIVE TransactionApplyFrom(_, _, _, _)
TransactionApplyFrom(tx, k, c, force) ==
    IF k > Len(tx.steps)
    THEN {Return(ConnCommit(c))}
    ELSE UNION { IF r.exc = None
                 THEN TransactionApplyFrom(tx, k + 1, r.conn, force)
                 ELSE {TransactionApplyExcept(tx, tx.steps[k], r.conn, force, r.exc)}
               : r \in MigrationStepApply(tx.steps[k], c, force) }

\* Transaction.apply
TransactionApply(tx, c, force) == TransactionApplyFrom(tx, 1, c, force)

\* Mutant: the except block of rollback keyed on the apply policies.
TransactionRollbackExceptApplyKeys(tx, step, c, force, exc) ==
    LET c1 == ConnRollback(c)
    IN  IF force \/ tx.ignore_errors \in {"apply", "all"}
        THEN Return(Log(c1, "Ignored error in step", <<step.id>>))
        ELSE Raise(c1, exc)

\* Transaction.rollback, the except block.
TransactionRollbackExcept(tx, step, c, force, exc) ==
    LET c1 == ConnRollback(c)
    IN  IF force \/ tx.ignore_errors \in {"rollback", "all"}
        THEN Return(Log(c1, "Ignored error in step", <<step.id>>))
        ELSE Raise(c1, exc)

\* Transaction.rollback from the k-th step down (reversed(self.steps)).
RECURSIVE TransactionRollbackFrom(_, _, _, _)
TransactionRollbackFrom(tx, k, c, force) ==
    IF k < 1
    THEN {Return(ConnCommit(c))}
    ELSE UNION { IF r.exc = None
                 THEN TransactionRollbackFrom(tx, k - 1, r.conn, force)
                 ELSE {TransactionRollbackExcept(tx, tx.steps[k], r.conn, force, r.exc)}
               : r \in MigrationStepRollback(tx.steps[k], c, force) }

\* Transaction.rollback
TransactionRollback(tx, c, force) == TransactionRollbackFrom(tx, Len(tx.steps), c, force)

(***************************************************************************)
(* Migration                                                               *)
(***************************************************************************)
\* Mutant: the answer of the previous call's time, kept instead of queried.
isappliedCached(m, c, migration_table) == m.id \in last.before.work.ledger[migration_table]

\* Migration.isapplied: SELECT COUNT(1) FROM <migration_table> WHERE id=?
isapplied(m, c, migration_table) == m.id \in c.work.ledger[migration_table]

\* getattr(step, direction)(conn, paramstyle, force)
TransactionCall(tx, direction, c, force) ==
    IF direction = "apply" THEN TransactionApply(tx, c, force)
    ELSE TransactionRollback(tx, c, force)

\* _process_steps, the inner try: the opposite direction on the executed
\* Transactions from the k-th down; the first DatabaseError ends the loop and
\* is logged.
RECURSIVE Compensate(_, _, _, _)
Compensate(executed, k, c, direction) ==
    IF k < 1
    THEN {c}
    ELSE UNION { IF r.exc = None
                 THEN Compensate(executed, k - 1, r.conn, direction)
                 ELSE {Log(r.conn, "Database error when reversing", <<direction>>)}
               : r \in TransactionCall(executed[k],
                                       IF direction = "apply" THEN "rollback" ELSE "apply",
                                       c, FALSE) }

\* Mutant: a DatabaseError of the compensation raised in place of the
\* original one.
ProcessStepsExceptRaiseSecondary(executed, c, direction, exc) ==
    { IF c1.log # <<>> /\ c1.log[Len(c1.log)][1] = "Database error when reversing"
      THEN Raise(c1, <<"DatabaseError", c1.log[Len(c1.log) - 2][2]>>)
      ELSE Raise(c1, exc)
      : c1 \in Compensate(executed, Len(executed), ConnRollback(c), direction) }

\* _process_steps, the except block: conn.rollback(), compensate, re-raise.
ProcessStepsExcept(executed, c, direction, exc) ==
    { Raise(c1, exc) : c1 \in Compensate(executed, Len(executed), ConnRollback(c), direction) }

\* _process_steps from the k-th Transaction of `steps` on.
RECURSIVE ProcessStepsFrom(_, _, _, _, _, _)
ProcessStepsFrom(steps, k, executed, c, direction, force) ==
    IF k > Len(steps)
    THEN {Return(c)}
    ELSE UNION { IF r.exc = None
                 THEN ProcessStepsFrom(steps, k + 1, Append(executed, steps[k]),
                                       r.conn, direction, force)
                 ELSE ProcessStepsExcept(executed, r.conn, direction, r.exc)
               : r \in TransactionCall(steps[k], direction, c, force) }

\* Migration._process_steps
_process_steps(steps, c, direction, force) ==
    ProcessStepsFrom(steps, 1, <<>>, c, direction, force)

\* Mutant: the row inserted into the default table, whatever the list's table.
LedgerInsertDefaultTable(m, c, migration_table) ==
    LET stmt == <<"INSERT", m.id, default_migration_table>>
    IN  IF m.id \in c.work.ledger[default_migration_table]
        THEN Raise(Log(c, "execute failed", stmt), <<"DatabaseError", stmt>>)
        ELSE Return(ConnCommit(Log([c EXCEPT !.work.ledger[default_migration_table] =
                                                  @ \cup {m.id}],
                                   "execute", stmt)))

\* Mutant: an INSERT that leaves a row already there alone.
LedgerInsertIgnoringDuplicate(m, c, migration_table) ==
    Return(ConnCommit(Log([c EXCEPT !.work.ledger[migration_table] = @ \cup {m.id}],
                          "execute", <<"INSERT", m.id, migration_table>>)))

\* Migration.apply, after _process_steps returned: INSERT INTO <migration_table>
\* (id, ctime), which the primary key on id refuses for an id already there,
\* then conn.commit().
LedgerInsert(m, c, migration_table) ==
    LET stmt == <<"INSERT", m.id, migration_table>>
    IN  IF m.id \in c.work.ledger[migration_table]
        THEN Raise(Log(c, "execute failed", stmt), <<"DatabaseError", stmt>>)
        ELSE Return(ConnCommit(Log([c EXCEPT !.work.ledger[migration_table] = @ \cup {m.id}],
                                   "execute", stmt)))

\* Migration.rollback, after _process_steps returned: DELETE FROM
\* <migration_table> WHERE id=?, then conn.commit().
LedgerDelete(m, c, migration_table) ==
    Return(ConnCommit(Log([c EXCEPT !.work.ledger[migration_table] = @ \ {m.id}],
                          "execute", <<"DELETE", m.id, migration_table>>)))

\* Mutant: the ledger row written before the steps run.
MigrationApplyLedgerFirst(m, c, migration_table, force) ==
    UNION { IF i.exc = None THEN _process_steps(m.steps, i.conn, "apply", force) ELSE {i}
            : i \in {LedgerInsert(m, Log(c, "Applying", <<m.id>>), migration_table)} }

\* Migration.apply
MigrationApply(m, c, migration_table, force) ==
    { IF r.exc = None THEN LedgerInsert(m, r.conn, migration_table) ELSE r
      : r \in _process_steps(m.steps, Log(c, "Applying", <<m.id>>), "apply", force) }

\* Mutant: the Transactions rolled back first-to-last.
MigrationRollbackForward(m, c, migration_table, force) ==
    { IF r.exc = None THEN LedgerDelete(m, r.conn, migration_table) ELSE r
      : r \in _process_steps(m.steps, Log(c, "Rolling back", <<m.id>>), "rollback", force) }

\* Migration.rollback
MigrationRollback(m, c, migration_table, force) ==
    { IF r.exc = None THEN LedgerDelete(m, r.conn, migration_table) ELSE r
      : r \in _process_steps(Reverse(m.steps), Log(c, "Rolling back", <<m.id>>),
                             "rollback", force) }

\* Mutant: a hook applied as a Normal migration is, forced.
PostApplyHookMigrationApplyRecorded(m, c, migration_table, force) ==
    MigrationApply(m, c, migration_table, TRUE)

\* Mutant: the hook's steps run with the force value of the caller.
PostApplyHookMigrationApplyCallerForce(m, c, migration_table, force) ==
    _process_steps(m.steps, Log(c, "Applying", <<m.id>>), "apply", force)

\* PostApplyHookMigration.apply
PostApplyHookMigrationApply(m, c, migration_table, force) ==
    _process_steps(m.steps, Log(c, "Applying", <<m.id>>), "apply", TRUE)

\* PostApplyHookMigration.rollback
PostApplyHookMigrationRollback(m, c, migration_table, force) ==
    _process_steps(Reverse(m.steps), Log(c, "Rolling back", <<m.id>>), "rollback", TRUE)

\* m.apply(...) / m.rollback(...), dispatched on the class of m.
Apply(m, c, migration_table, force) ==
    IF m.kind = "PostApplyHookMigration"
    THEN PostApplyHookMigrationApply(m, c, migration_table, force)
    ELSE MigrationApply(m, c, migration_table, force)

Rollback(m, c, migration_table, force) ==
    IF m.kind = "PostApplyHookMigration"
    THEN PostApplyHookMigrationRollback(m, c, migration_table, force)
    ELSE MigrationRollback(m, c, migration_table, force)

(***************************************************************************)
(* MigrationList                                                           *)
(***************************************************************************)
\* MigrationList.to_apply
to_apply(list, c) ==
    MigrationList(list.migration_table,
                  SelectSeq(list.items, LAMBDA m : ~isapplied(m, c, list.migration_table)),
                  list.post_apply)

\* Mutant: the applied members in original order.
to_rollbackForward(list, c) ==
    MigrationList(list.migration_table,
                  SelectSeq(list.items, LAMBDA m : isapplied(m, c, list.migration_table)),
                  list.post_apply)

\* MigrationList.to_rollback
to_rollback(list, c) ==
    MigrationList(list.migration_table,
                  Reverse(SelectSeq(list.items,
                                    LAMBDA m : isapplied(m, c, list.migration_table))),
                  list.post_apply)

\* Mutant: the ledger asked again right before a member is applied.
ApplyMemberIfNotApplied(m, c, migration_table, force) ==
    IF m.kind = "Migration" /\ isapplied(m, c, migration_table)
    THEN {Return(c)}
    ELSE Apply(m, c, migration_table, force)

\* Mutant: a failing member taking the whole batch back with it.
ApplyMemberBatchAtomic(m, c, migration_table, force) ==
    { IF r.exc = None THEN r
      ELSE Raise([r.conn EXCEPT !.work = EmptyDatabase, !.committed = EmptyDatabase], r.exc)
      : r \in Apply(m, c, migration_table, force) }

\* MigrationList.apply, one turn of the loop: m.apply(...), whatever the
\* ledger holds by now.
ApplyMember(m, c, migration_table, force) == Apply(m, c, migration_table, force)

\* MigrationList.apply, the loop over self + self.post_apply from the k-th on.
RECURSIVE MigrationListApplyFrom(_, _, _, _, _)
MigrationListApplyFrom(ms, k, c, migration_table, force) ==
    IF k > Len(ms)
    THEN {Return(c)}
    ELSE UNION { IF r.exc = None
                 THEN MigrationListApplyFrom(ms, k + 1, r.conn, migration_table, force)
                 ELSE {r}
               : r \in ApplyMember(ms[k], c, migration_table, force) }

\* Mutant: the post-apply hooks first.
MigrationListApplyHooksFirst(list, c, force) ==
    IF list.items = <<>>
    THEN {Return(c)}
    ELSE MigrationListApplyFrom(list.post_apply \o list.items, 1, c,
                                list.migration_table, force)

\* Mutant: a member's failure is kept for the end, and the loop goes on.
RECURSIVE MigrationListApplyGoOn(_, _, _, _, _, _)
MigrationListApplyGoOn(ms, k, c, migration_table, force, exc) ==
    IF k > Len(ms)
    THEN {Raise(c, exc)}
    ELSE UNION { MigrationListApplyGoOn(ms, k + 1, r.conn, migration_table, force,
                                        IF exc = None THEN r.exc ELSE exc)
               : r \in Apply(ms[k], c, migration_table, force) }

MigrationListApplyKeepGoing(list, c, force) ==
    IF list.items = <<>>
    THEN {Return(c)}
    ELSE MigrationListApplyGoOn(list.items \o list.post_apply, 1, c,
                                list.migration_table, force, None)

\* Mutant: the loop without the test for an empty list.
MigrationListApplyNoGuard(list, c, force) ==
    MigrationListApplyFrom(list.items \o list.post_apply, 1, c, list.migration_table, force)

\* MigrationList.apply
MigrationListApply(list, c, force) ==
    IF list.items = <<>>
    THEN {Return(c)}
    ELSE MigrationListApplyFrom(list.items \o list.post_apply, 1, c,
                                list.migration_table, force)

\* MigrationList.rollback, the loop over self + self.post_apply from the k-th on.
RECURSIVE MigrationListRollbackFrom(_, _, _, _, _)
MigrationListRollbackFrom(ms, k, c, migration_table, force) ==
    IF k > Len(ms)
    THEN {Return(c)}
    ELSE UNION { IF r.exc = None
                 THEN MigrationListRollbackFrom(ms, k + 1, r.conn, migration_table, force)
                 ELSE {r}
               : r \in Rollback(ms[k], c, migration_table, force) }

\* MigrationList.rollback
MigrationListRollback(list, c, force) ==
    IF list.items = <<>>
    THEN {Return(c)}
    ELSE MigrationListRollbackFrom(list.items \o list.post_apply, 1, c,
                                   list.migration_table, force)

(***************************************************************************)
(* The migrations a script can declare (StepCollector): transactions of    *)
(* one or more steps, step ids counted from 0 in declaration order.        *)
(***************************************************************************)
StepSeqs(m, first, n) ==
    { [k \in 1..n |-> MigrationStep(m, first + k - 1, f[k])] : f \in [1..n -> BOOLEAN] }

Transactions(m, first, n) ==
    { Transaction(s, p) : s \in StepSeqs(m, first, n), p \in IgnoreErrors }

RECURSIVE TransactionSeqs(_, _, _, _)
TransactionSeqs(m, first, budget, ntx) ==
    {<<>>} \cup
    IF ntx = 0 \/ budget = 0
    THEN {}
    ELSE UNION { { <<t>> \o rest : t \in Transactions(m, first, n),
                                   rest \in TransactionSeqs(m, first + n, budget - n, ntx - 1) }
               : n \in 1..Min(budget, MaxSteps) }

(***************************************************************************)
(* Reading the log of the call in progress.                                *)
(***************************************************************************)
Events(log, kinds) == SelectSeq(log, LAMBDA e : e[1] \in kinds)

Count(log, kinds) == Len(Events(log, kinds))

\* The step ids announced to the logger, in order.
Attempted(log, kind) == [k \in 1..Count(log, {kind}) |-> Events(log, {kind})[k][2][1]]

IsPrefix(s, t) == Len(s) <= Len(t) /\ \A k \in 1..Len(s) : s[k] = t[k]

StepIds(tx) == [k \in 1..Len(tx.steps) |-> tx.steps[k].id]

Failed(log) == Count(log, {"execute failed"}) > 0

(***************************************************************************)
(* Calls.                                                                  *)
(***************************************************************************)
\* The connection as a call finds it: the log starts empty.
Fresh(c) == [c EXCEPT !.log = <<>>]

NoCall == [op |-> "none", target |-> 0, force |-> FALSE, exc |-> None, before |-> NewConn]

\* No concurrent runs: one process on the database.
NoRuns == <<>>

\* No interactive selection: a run in batch mode, or a call from a program.
NoSelector ==
    [pc |-> "batch", direction |-> "apply", position |-> 0, choice |-> <<>>,
     before |-> <<>>, response |-> "", from |-> 0, key |-> "none", output |-> <<>>]

Call(op, target, force, r, before) ==
    [op |-> op, target |-> target, force |-> force, exc |-> r.exc, before |-> Fresh(before)]

(***************************************************************************)
(* SpecTx: one Transaction, called once.                                   *)
(***************************************************************************)
TheTransaction == migrations.items[1].steps[1]

InitTx ==
    /\ \E n \in 1..MaxSteps : \E t \in Transactions(1, 0, n) :
          migrations = MigrationList(default_migration_table,
                                     <<Migration(1, <<t>>, "Migration")>>, <<>>)
    /\ selected = migrations
    /\ conn = NewConn
    /\ last = NoCall
    /\ history = [m \in {1} |-> "none"]
    /\ ncalls = 0
    /\ selector = NoSelector
    /\ runs = NoRuns

TransactionApplyCall ==
    /\ ncalls = 0
    /\ ncalls' = 1
    /\ \E force \in BOOLEAN : \E r \in TransactionApply(TheTransaction, Fresh(conn), force) :
          /\ conn' = r.conn
          /\ last' = Call("Transaction.apply", 1, force, r, conn)
    /\ UNCHANGED <<migrations, selected, history, selector, runs>>

TransactionRollbackCall ==
    /\ ncalls = 0
    /\ ncalls' = 1
    /\ \E force \in BOOLEAN : \E r \in TransactionRollback(TheTransaction, Fresh(conn), force) :
          /\ conn' = r.conn
          /\ last' = Call("Transaction.rollback", 1, force, r, conn)
    /\ UNCHANGED <<migrations, selected, history, selector, runs>>

NextTx == TransactionApplyCall \/ TransactionRollbackCall

SpecTx == InitTx /\ [][NextTx]_vars

(***************************************************************************)
(* SpecMig: one Migration, called once, on a fresh database or on one      *)
(* where it has been applied.                                              *)
(***************************************************************************)
TheMigration == migrations.items[1]

\* Migration.apply of m on a new database with every statement succeeding.
CleanApply(m, migration_table) ==
    CHOOSE r \in MigrationApply(m, NewConn, migration_table, FALSE) : ~Failed(r.conn.log)

\* The connection after m was applied so.
Applied(m, migration_table) == Fresh(CleanApply(m, migration_table).conn)

InitMig ==
    /\ \E steps \in TransactionSeqs(1, 0, MaxMigSteps, MaxTx) :
          migrations = MigrationList(default_migration_table,
                                     <<Migration(1, steps, "Migration")>>, <<>>)
    /\ selected = migrations
    /\ conn \in {NewConn, Applied(migrations.items[1], migrations.migration_table)}
    /\ last = NoCall
    /\ history = [m \in {1} |-> "none"]
    /\ ncalls = 0
    /\ selector = NoSelector
    /\ runs = NoRuns

MigrationApplyCall ==
    /\ ncalls = 0
    /\ ncalls' = 1
    /\ \E force \in BOOLEAN :
       \E r \in MigrationApply(TheMigration, Fresh(conn), migrations.migration_table, force) :
          /\ conn' = r.conn
          /\ last' = Call("Migration.apply", 1, force, r, conn)
    /\ UNCHANGED <<migrations, selected, history, selector, runs>>

MigrationRollbackCall ==
    /\ ncalls = 0
    /\ ncalls' = 1
    /\ \E force \in BOOLEAN :
       \E r \in MigrationRollback(TheMigration, Fresh(conn), migrations.migration_table, force) :
          /\ conn' = r.conn
          /\ last' = Call("Migration.rollback", 1, force, r, conn)
    /\ UNCHANGED <<migrations, selected, history, selector, runs>>

NextMig == MigrationApplyCall \/ MigrationRollbackCall

SpecMig == InitMig /\ [][NextMig]_vars

(***************************************************************************)
(* Spec: a MigrationList as read_migrations returns it, on a fresh         *)
(* database: views are derived from it and applied or rolled back, any     *)
(* number of times.                                                        *)
(***************************************************************************)
\* The scripts of a list: one step with a rollback action each, in its own
\* Transaction, which ignores no error or all of them.
Scripts(id) ==
    { <<Transaction(<<MigrationStep(id, 0, TRUE)>>, p)>> : p \in {"None", "all"} }

\* The id of the post-apply script.
PostApplyId == 0

MigrationLists ==
    UNION { { MigrationList(default_migration_table,
                            [i \in 1..n |-> Migration(i, f[i], "Migration")], hooks)
              : f \in [1..n -> UNION {Scripts(i) : i \in 1..n}],
                hooks \in { <<>>,
                            <<Migration(PostApplyId,
                                        <<Transaction(<<MigrationStep(PostApplyId, 0, TRUE)>>,
                                                      "None")>>,
                                        "PostApplyHookMigration")>> } }
          : n \in 1..MaxMigrations }

\* The members a list call invoked, in order, from its log.
Called(log) ==
    LET e == Events(log, {"Applying", "Rolling back"}) IN [k \in 1..Len(e) |-> e[k][2][1]]

\* The members whose call returned normally: those invoked, but for the last
\* one when the list call raised.
Returned(r) ==
    LET ids == Called(r.conn.log)
    IN  { ids[k] : k \in 1..(IF r.exc = None THEN Len(ids) ELSE Len(ids) - 1) }

Init ==
    /\ migrations \in { l \in MigrationLists :
                           \A i \in 1..Len(l.items) :
                              \A t \in 1..Len(l.items[i].steps) :
                                 \A k \in 1..Len(l.items[i].steps[t].steps) :
                                    l.items[i].steps[t].steps[k]._apply[2] = i }
    /\ selected = migrations
    /\ conn = NewConn
    /\ last = NoCall
    /\ history = [id \in 1..Len(migrations.items) |-> "none"]
    /\ ncalls = 0
    /\ selector = NoSelector
    /\ runs = NoRuns

\* What main() runs on: the list as read (--all), or one of its views.
Views == {migrations, to_apply(migrations, conn), to_rollback(migrations, conn)}

\* migrations.apply(force), on the list as read or on a view of it
MigrationListApplyCall ==
    /\ ncalls < MaxCalls
    /\ \E list \in Views : \E force \in BOOLEAN :
       \E r \in MigrationListApply(list, Fresh(conn), force) :
          /\ selected' = list
          /\ conn' = r.conn
          /\ last' = Call("MigrationList.apply", 0, force, r, conn)
          /\ history' = [id \in DOMAIN history |->
                            IF id \in Returned(r) THEN "apply" ELSE history[id]]
    /\ ncalls' = ncalls + 1
    /\ UNCHANGED <<migrations, selector, runs>>

\* migrations.rollback(force), on the list as read or on a view of it
MigrationListRollbackCall ==
    /\ ncalls < MaxCalls
    /\ \E list \in Views : \E force \in BOOLEAN :
       \E r \in MigrationListRollback(list, Fresh(conn), force) :
          /\ selected' = list
          /\ conn' = r.conn
          /\ last' = Call("MigrationList.rollback", 0, force, r, conn)
          /\ history' = [id \in DOMAIN history |->
                            IF id \in Returned(r) THEN "rollback" ELSE history[id]]
    /\ ncalls' = ncalls + 1
    /\ UNCHANGED <<migrations, selector, runs>>

Next == MigrationListApplyCall \/ MigrationListRollbackCall

Spec == Init /\ [][Next]_vars

\* C3: in every Transaction.apply call the steps are attempted in declared
\* order; the connection is committed exactly once if and only if every step
\* succeeded; if a step fails the database transaction is rolled back (the
\* connection is back at the committed data), no commit is issued and no
\* later step is attempted (the failed statement is the last one executed).
C3_TransactionApplyAtomic ==
    last.op = "Transaction.apply" =>
        LET log == conn.log
            tried == Attempted(log, "applying step")
            stmts == Events(log, {"execute", "execute failed"})
        IN  /\ IsPrefix(tried, StepIds(TheTransaction))
            /\ Len(stmts) = Len(tried)
            /\ \A k \in 1..Len(stmts) : stmts[k][2] = TheTransaction.steps[k]._apply
            /\ Count(log, {"commit"}) = (IF Failed(log) THEN 0 ELSE 1)
            /\ ~Failed(log) =>
                  /\ Len(tried) = Len(TheTransaction.steps)
                  /\ Count(log, {"rollback"}) = 0
                  /\ conn.committed = conn.work
                  /\ Len(conn.committed.db) = Len(last.before.committed.db) + Len(tried)
            /\ Failed(log) =>
                  /\ Count(log, {"execute failed"}) = 1
                  /\ stmts[Len(stmts)][1] = "execute failed"
                  /\ Count(log, {"rollback"}) = 1
                  /\ conn.work = last.before.committed
                  /\ conn.committed = last.before.committed

\* C3 witness: a three-step Transaction whose second step failed.
C3_Witness ==
    /\ last.op = "Transaction.apply"
    /\ Len(TheTransaction.steps) = 3
    /\ Attempted(conn.log, "applying step") = <<0, 1>>
    /\ Failed(conn.log)

\* C4: when a step fails inside Transaction.apply, the call returns normally
\* if and only if force is true or ignore_errors is 'apply' or 'all', and then
\* it has rolled back, has not committed and has run no further step; in
\* every other case the step's failure is what the caller gets.
C4_TransactionApplySwallow ==
    (last.op = "Transaction.apply" /\ Failed(conn.log)) =>
        LET log == conn.log
            swallow == last.force \/ TheTransaction.ignore_errors \in {"apply", "all"}
            failure == Events(log, {"execute failed"})[1]
        IN  /\ (last.exc = None) <=> swallow
            /\ ~swallow => last.exc = <<"DatabaseError", failure[2]>>
            /\ swallow =>
                  /\ log[Len(log)][1] = "Ignored error in step"
                  /\ log[Len(log) - 1][1] = "rollback"
                  /\ log[Len(log) - 2] = failure
                  /\ Count(log, {"commit"}) = 0

\* C4 witness: a failure swallowed by ignore_errors alone, with a step left over.
C4_Witness ==
    /\ last.op = "Transaction.apply"
    /\ Failed(conn.log)
    /\ ~last.force
    /\ TheTransaction.ignore_errors = "apply"
    /\ last.exc = None
    /\ Len(Attempted(conn.log, "applying step")) < Len(TheTransaction.steps)

\* C5: Transaction.rollback rolls the steps back in reverse declared order; a
\* failure is swallowed if and only if force is true or ignore_errors is
\* 'rollback' or 'all' ('apply' does not swallow a rollback failure, and
\* 'rollback' does not swallow an apply failure); a commit is issued exactly
\* once, and only when every step rollback succeeded.
C5_TransactionRollbackMirror ==
    LET log == conn.log
    IN  /\ last.op = "Transaction.rollback" =>
              /\ IsPrefix(Attempted(log, "rolling back step"), Reverse(StepIds(TheTransaction)))
              /\ Count(log, {"commit"}) = (IF Failed(log) THEN 0 ELSE 1)
              /\ ~Failed(log) =>
                    Len(Attempted(log, "rolling back step")) = Len(TheTransaction.steps)
              /\ Failed(log) =>
                    /\ (last.exc = None) <=>
                          (last.force \/ TheTransaction.ignore_errors \in {"rollback", "all"})
                    /\ Count(log, {"rollback"}) = 1
                    /\ conn.work = last.before.committed
                    /\ conn.committed = last.before.committed
        /\ (last.op = "Transaction.apply" /\ Failed(log) /\ ~last.force
                /\ TheTransaction.ignore_errors = "rollback") => last.exc # None

\* C5 witness: ignore_errors='apply' did not swallow the failure of the second
\* step rolled back (the first declared of two), reached after the last one.
C5_Witness ==
    /\ last.op = "Transaction.rollback"
    /\ Failed(conn.log)
    /\ ~last.force
    /\ TheTransaction.ignore_errors = "apply"
    /\ last.exc # None
    /\ Attempted(conn.log, "rolling back step") = <<1, 0>>

(***************************************************************************)
(* Migration-level claims (SpecMig).                                       *)
(***************************************************************************)
\* The steps of a migration, in declaration order.
RECURSIVE Flatten(_)
Flatten(txs) == IF txs = <<>> THEN <<>> ELSE Head(txs).steps \o Flatten(Tail(txs))

StepOf(m, id) == CHOOSE st \in {Flatten(m.steps)[k] : k \in 1..Len(Flatten(m.steps))} : st.id = id

\* The statements of the given kind ("apply", "rollback") in a sequence of events.
Statements(events, kind) == SelectSeq(events, LAMBDA e : e[2][1] = kind)

Pos(seq, x) == CHOOSE k \in 1..Len(seq) : seq[k] = x

TheTable == migrations.migration_table

\* C1: if Migration.apply raises, the ledger holds no row for the migration's
\* id that was not there before the call; if Migration.rollback raises, the
\* row for the id that was there before the call is still there.
C1_LedgerKeptOnFailure ==
    /\ (last.op = "Migration.apply" /\ last.exc # None) =>
          \A t \in Tables :
             /\ TheMigration.id \in conn.committed.ledger[t] =>
                   TheMigration.id \in last.before.committed.ledger[t]
             /\ TheMigration.id \in conn.work.ledger[t] =>
                   TheMigration.id \in last.before.committed.ledger[t]
    /\ (last.op = "Migration.rollback" /\ last.exc # None) =>
          \A t \in Tables :
             TheMigration.id \in last.before.committed.ledger[t] =>
                /\ TheMigration.id \in conn.committed.ledger[t]
                /\ TheMigration.id \in conn.work.ledger[t]

\* C1 witness: an apply on a new database that raised after a Transaction had
\* been committed, and left no row.
C1_Witness ==
    /\ last.op = "Migration.apply"
    /\ last.exc # None
    /\ Count(conn.log, {"commit"}) >= 1
    /\ TheMigration.id \notin last.before.committed.ledger[TheTable]
    /\ TheMigration.id \notin conn.committed.ledger[TheTable]

\* C2: whenever Migration.apply raises the failure of a step, and every step
\* that succeeded has a rollback action that inverts its apply action (no
\* rollback statement failed), the data after the call is the data before the
\* call, whatever the Transactions, the failing step and the ignore_errors
\* policies of the Transactions that ran before it (those whose own failure
\* was swallowed included).
C2_FailedApplyNetZero ==
    (/\ last.op = "Migration.apply"
     /\ last.exc # None
     /\ last.exc[2][1] = "apply"
     /\ \A e \in {Statements(Events(conn.log, {"execute"}), "apply")[k] :
                    k \in 1..Len(Statements(Events(conn.log, {"execute"}), "apply"))} :
           StepOf(TheMigration, e[2][3])._rollback # None
     /\ Statements(Events(conn.log, {"execute failed"}), "rollback") = <<>>)
    => /\ conn.committed.db = last.before.committed.db
       /\ conn.work.db = last.before.committed.db

\* C6: Migration.rollback rolls the steps back in the exact reverse of the
\* order in which Migration.apply applies them: a failure-free apply applies
\* the steps in the order of the file, any two steps rollback rolls back, it
\* rolls back in the opposite of that order, and when nothing fails it rolls
\* back every step, so that rolling back an applied migration whose steps all
\* have a rollback action leaves no effect of it.
C6_RollbackReversesApply ==
    LET log == conn.log
        applied == StepIds([steps |-> Flatten(TheMigration.steps)])
    IN  /\ (last.op = "Migration.apply" /\ ~Failed(log)) =>
              Attempted(log, "applying step") = applied
        /\ last.op = "Migration.rollback" =>
              LET rolled == Attempted(log, "rolling back step")
              IN  /\ \A i \in 1..(Len(rolled) - 1) :
                        Pos(applied, rolled[i]) > Pos(applied, rolled[i + 1])
                  /\ ~Failed(log) =>
                        /\ rolled = Reverse(applied)
                        /\ (/\ \A k \in 1..Len(applied) :
                                  StepOf(TheMigration, applied[k])._rollback # None
                            /\ last.before = Applied(TheMigration, TheTable))
                           => conn.committed.db = <<>>

\* C6 witness: a Transaction of one step and then one of two, applied, rolled
\* back without a failure.
C6_Witness ==
    /\ last.op = "Migration.rollback"
    /\ last.before = Applied(TheMigration, TheTable)
    /\ Len(TheMigration.steps) = 2
    /\ Len(TheMigration.steps[2].steps) = 2
    /\ ~Failed(conn.log)
    /\ Attempted(conn.log, "rolling back step") = <<2, 1, 0>>
    /\ conn.committed.db = <<>>

(***************************************************************************)
(* MigrationList-level claims (Spec).                                      *)
(***************************************************************************)
Ids(ms) == [k \in 1..Len(ms) |-> ms[k].id]

Range(seq) == {seq[k] : k \in 1..Len(seq)}

\* C7: after any sequence of calls, for every member X of the list (a
\* Migration, ledger-tracked): isapplied(X) is true if and only if the ledger
\* holds a row for X, if and only if the most recent call for X that returned
\* normally was apply; isapplied answers from the ledger as it is now.
C7_LedgerMembership ==
    \A k \in 1..Len(migrations.items) :
        LET X == migrations.items[k]
        IN  /\ isapplied(X, conn, TheTable) <=> X.id \in conn.committed.ledger[TheTable]
            /\ X.id \in conn.committed.ledger[TheTable] <=> history[X.id] = "apply"

\* C7 witness: after two calls, one member's last successful call was apply
\* and another's was rollback.
C7_Witness ==
    /\ ncalls = 2
    /\ \E a, b \in 1..Len(migrations.items) :
          /\ history[a] = "apply" /\ isapplied(migrations.items[a], conn, TheTable)
          /\ history[b] = "rollback" /\ ~isapplied(migrations.items[b], conn, TheTable)

\* C8: at any ledger state, to_apply() is exactly the members with no ledger
\* entry, in original list order, and to_rollback() exactly the members with
\* a ledger entry, in the reverse of original list order; every member is in
\* exactly one of them.
C8_Views ==
    LET ids == Ids(migrations.items)
        A == Ids(to_apply(migrations, conn).items)
        R == Ids(to_rollback(migrations, conn).items)
        ledger == conn.work.ledger[TheTable]
    IN  /\ Range(A) = Range(ids) \ ledger
        /\ Range(R) = Range(ids) \cap ledger
        /\ Len(A) + Len(R) = Len(ids)
        /\ \A i, j \in 1..Len(A) : i < j => Pos(ids, A[i]) < Pos(ids, A[j])
        /\ \A i, j \in 1..Len(R) : i < j => Pos(ids, R[i]) > Pos(ids, R[j])
        /\ to_apply(migrations, conn).post_apply = migrations.post_apply
        /\ to_rollback(migrations, conn).post_apply = migrations.post_apply

\* C8 witness: the ledger has changed twice, and holds two members.
C8_Witness ==
    /\ ncalls = 2
    /\ Ids(to_rollback(migrations, conn).items) = <<2, 1>>
    /\ to_apply(migrations, conn).items = <<>>

IsListCall == last.op \in {"MigrationList.apply", "MigrationList.rollback"}

LedgerStatement == IF last.op = "MigrationList.apply" THEN "INSERT" ELSE "DELETE"

\* C9: MigrationList.apply and MigrationList.rollback on a non-empty list
\* invoke the Normal members in list order and only afterwards the
\* PostApplyHook members: all of them when the call returns normally; and a
\* hook is invoked only after every Normal member has completed (its ledger
\* statement has been executed).
C9_HooksLast ==
    (IsListCall /\ selected.items # <<>>) =>
        LET log == conn.log
            expected == Ids(selected.items \o selected.post_apply)
        IN  /\ IsPrefix(Called(log), expected)
            /\ last.exc = None => Called(log) = expected
            /\ \A k \in 1..Len(log) :
                  (log[k][1] \in {"Applying", "Rolling back"} /\ log[k][2][1] = PostApplyId) =>
                      \A i \in 1..Len(selected.items) :
                          \E j \in 1..(k - 1) :
                              log[j] = <<"execute", <<LedgerStatement, selected.items[i].id,
                                                      selected.migration_table>>>>

\* C9 witness: apply on two members and a hook, all invoked.
C9_Witness ==
    /\ last.op = "MigrationList.apply"
    /\ last.exc = None
    /\ Called(conn.log) = <<1, 2, PostApplyId>>

\* Where in the log a failure left a Migration: a ledger INSERT that failed,
\* or a step statement whose failure the Transaction did not swallow
\* (Transaction and _process_steps each roll the connection back).
RaisedAt(log) ==
    { k \in 1..Len(log) :
        /\ log[k][1] = "execute failed"
        /\ \/ log[k][2][1] = "INSERT"
           \/ /\ k + 2 <= Len(log)
              /\ log[k + 1][1] = "rollback"
              /\ log[k + 2][1] = "rollback" }

\* C10: when a Normal member raises during MigrationList.apply or
\* MigrationList.rollback, no later member and no post-apply hook is invoked
\* in that call, and the failure propagates to the caller.
C10_FailureAbortsBatch ==
    IsListCall =>
        LET log == conn.log
        IN  /\ \A k \in RaisedAt(log) :
                  /\ last.exc = <<"DatabaseError", log[k][2]>>
                  /\ \A j \in (k + 1)..Len(log) : log[j][1] \notin {"Applying", "Rolling back"}
                  /\ PostApplyId \notin Range(Called(log))
            /\ last.exc # None => RaisedAt(log) # {}

\* C10 witness: the first of two members raised, with a hook in the list.
C10_Witness ==
    /\ IsListCall
    /\ Len(selected.items) = 2
    /\ selected.post_apply # <<>>
    /\ last.exc # None
    /\ Called(conn.log) = <<selected.items[1].id>>

\* C11: MigrationList.apply and MigrationList.rollback on a list with no
\* Normal member do nothing, even when the list has post-apply hooks: no
\* hook is invoked, no statement is executed, nothing is committed or rolled
\* back, the data and the ledger are as before the call, and the call
\* returns normally.
C11_EmptyListNoOp ==
    (IsListCall /\ selected.items = <<>>) =>
        /\ conn.log = <<>>
        /\ conn.work = last.before.work
        /\ conn.committed = last.before.committed
        /\ last.exc = None

\* C11 witness: apply on the to_apply() view of a list with a hook whose
\* members are all applied.
C11_Witness ==
    /\ last.op = "MigrationList.apply"
    /\ selected.items = <<>>
    /\ selected.post_apply # <<>>
    /\ conn.committed.ledger[TheTable] = Range(Ids(migrations.items))
    /\ conn.log = <<>>

\* The hook's step statement was executed, or tried, in a call.
HookRan(log) ==
    \E k \in 1..Len(log) :
        /\ log[k][1] \in {"execute", "execute failed"}
        /\ log[k][2] = <<(IF last.op = "MigrationList.apply" THEN "apply" ELSE "rollback"),
                         PostApplyId, 0>>

\* No ledger table holds the id of the post-apply hook, and no call executed
\* a ledger statement for it.
HookNotRecorded ==
    /\ \A t \in Tables :
          /\ PostApplyId \notin conn.work.ledger[t]
          /\ PostApplyId \notin conn.committed.ledger[t]
    /\ \A k \in 1..Len(conn.log) :
          conn.log[k][1] \in {"execute", "execute failed"} =>
             ~(conn.log[k][2][1] \in {"INSERT", "DELETE"} /\ conn.log[k][2][2] = PostApplyId)

\* C12 as stated: after any sequence of MigrationList.apply and
\* MigrationList.rollback calls the ledger never holds the id of a
\* PostApplyHook migration, and the hook's steps run on every call on a
\* non-empty list.
C12_HookRunsOnEveryCall ==
    /\ HookNotRecorded
    /\ (IsListCall /\ selected.items # <<>> /\ selected.post_apply # <<>>) =>
          HookRan(conn.log)

\* C12 as amended: the ledger never holds the id of a PostApplyHook
\* migration, whose apply inserts no row and whose rollback deletes none,
\* and the hook's steps run on every call on a non-empty list in which no
\* Normal member raises (and on no other call).
C12_HookRunsAfterMembers ==
    /\ HookNotRecorded
    /\ (IsListCall /\ selected.post_apply # <<>>) =>
          (HookRan(conn.log) <=> (selected.items # <<>> /\ last.exc = None))

\* C12 witness: a rollback that returned, after an apply: the hook ran and
\* is not in the ledger.
C12_Witness ==
    /\ ncalls = 2
    /\ last.op = "MigrationList.rollback"
    /\ selected.items # <<>>
    /\ last.exc = None
    /\ HookRan(conn.log)
    /\ HookNotRecorded

(***************************************************************************)
(* Migration-level claims on swallowed failures and force (SpecMig).       *)
(***************************************************************************)
\* The index of the Transaction of m that holds the step.
TxOf(m, id) == CHOOSE t \in 1..Len(m.steps) : id \in Range(StepIds(m.steps[t]))

\* The places of the log where an apply statement failed.
FailedApplies(log) ==
    { k \in 1..Len(log) : log[k][1] = "execute failed" /\ log[k][2][1] = "apply" }

\* The failure at place k of the log is one its Transaction's policy swallows.
SwallowedByPolicy(m, log, k) ==
    m.steps[TxOf(m, log[k][2][3])].ignore_errors \in {"apply", "all"}

\* C13: in Migration.apply without force, a Transaction whose failure its
\* ignore_errors policy swallows does not halt the Migration: the failure is
\* followed by the rollback of that Transaction alone and then by the next
\* Transaction (by the ledger INSERT after the last one); and when every
\* failure is such a one, on a database where the migration is not applied,
\* every Transaction is executed in order, Migration.apply returns normally
\* and the ledger row of the migration is inserted.
C13_SwallowedFailureGoesOn ==
    (last.op = "Migration.apply" /\ ~last.force) =>
        LET log == conn.log
            m == TheMigration
            first == [t \in 1..Len(m.steps) |-> m.steps[t].steps[1].id]
        IN  /\ \A k \in FailedApplies(log) :
                  SwallowedByPolicy(m, log, k) =>
                     LET t == TxOf(m, log[k][2][3])
                     IN  /\ k + 3 <= Len(log)
                         /\ log[k + 1][1] = "rollback"
                         /\ log[k + 2] = <<"Ignored error in step", <<log[k][2][3]>>>>
                         /\ IF t < Len(m.steps)
                            THEN log[k + 3] = <<"applying step", <<first[t + 1]>>>>
                            ELSE /\ log[k + 3][1] \in {"execute", "execute failed"}
                                 /\ log[k + 3][2] = <<"INSERT", m.id, TheTable>>
            /\ (/\ FailedApplies(log) # {}
                /\ \A k \in FailedApplies(log) : SwallowedByPolicy(m, log, k)
                /\ m.id \notin last.before.committed.ledger[TheTable])
               => /\ last.exc = None
                  /\ SelectSeq(Attempted(log, "applying step"),
                               LAMBDA id : id \in Range(first)) = first
                  /\ Count(log, {"rolling back step"}) = 0
                  /\ m.id \in conn.committed.ledger[TheTable]

\* C13 witness: three Transactions of one step; the second one fails and
\* ignores all errors; the third one ran and the row is in the ledger.
C13_Witness ==
    /\ last.op = "Migration.apply"
    /\ ~last.force
    /\ Len(TheMigration.steps) = 3
    /\ TheMigration.steps[2].ignore_errors = "all"
    /\ Events(conn.log, {"execute", "execute failed"}) =
          << <<"execute", <<"apply", 1, 0>>>>, <<"execute failed", <<"apply", 1, 1>>>>,
             <<"execute", <<"apply", 1, 2>>>>, <<"execute", <<"INSERT", 1, TheTable>>>> >>
    /\ last.exc = None
    /\ TheMigration.id \in conn.committed.ledger[TheTable]

\* The number of times a statement is in the data.
Occurrences(db, stmt) == Len(SelectSeq(db, LAMBDA x : x = stmt))

\* The Transactions of m none of whose steps failed to apply in the call.
CleanTransactions(m, log) ==
    SelectSeq(m.steps,
              LAMBDA tx : \A k \in FailedApplies(log) : log[k][2][3] \notin Range(StepIds(tx)))

\* The apply statements of the steps of the Transactions, in order.
ApplyStatements(txs) == [k \in 1..Len(Flatten(txs)) |-> Flatten(txs)[k]._apply]

\* C14: when a step of a Transaction with ignore_errors 'all' or 'apply'
\* fails during Migration.apply, no effect of the steps of that Transaction
\* that ran before the failure persists; and when the Migration finishes
\* (returns), the effects of the other Transactions, earlier and later, are
\* all there: the committed data is the data before the call followed by
\* the apply statements of exactly the Transactions in which no step failed.
C14_SwallowedTransactionLeavesNothing ==
    last.op = "Migration.apply" =>
        LET log == conn.log
            m == TheMigration
        IN  /\ \A k \in FailedApplies(log) :
                  SwallowedByPolicy(m, log, k) =>
                     \A j \in 1..Len(m.steps[TxOf(m, log[k][2][3])].steps) :
                        LET stmt == m.steps[TxOf(m, log[k][2][3])].steps[j]._apply
                        IN  Occurrences(conn.committed.db, stmt) =
                               Occurrences(last.before.committed.db, stmt)
            /\ last.exc = None =>
                  /\ conn.committed.db =
                        last.before.committed.db \o ApplyStatements(CleanTransactions(m, log))
                  /\ conn.work.db = conn.committed.db

\* C14 witness: a Transaction of two steps ignoring all errors, whose second
\* step failed after the first one succeeded, and then a Transaction of one
\* step: only the latter's statement is in the data.
C14_Witness ==
    /\ last.op = "Migration.apply"
    /\ ~last.force
    /\ last.before = NewConn
    /\ Len(TheMigration.steps) = 2
    /\ Len(TheMigration.steps[1].steps) = 2
    /\ TheMigration.steps[1].ignore_errors = "all"
    /\ TheMigration.steps[2].ignore_errors = "None"
    /\ Events(conn.log, {"execute", "execute failed"}) =
          << <<"execute", <<"apply", 1, 0>>>>, <<"execute failed", <<"apply", 1, 1>>>>,
             <<"execute", <<"apply", 1, 2>>>>, <<"execute", <<"INSERT", 1, TheTable>>>> >>
    /\ last.exc = None
    /\ conn.committed.db = << <<"apply", 1, 2>> >>

\* The migration with the ignore_errors of every Transaction set to 'all'.
AllIgnored(m) ==
    [m EXCEPT !.steps = [t \in 1..Len(m.steps) |-> [m.steps[t] EXCEPT !.ignore_errors = "all"]]]

\* C15: with force=true, Migration.apply and Migration.rollback do, for every
\* migration and every pattern of step failures, what they do with
\* force=false once every Transaction's ignore_errors is 'all': the same
\* step executions, commits and rollbacks in the same order (the same log),
\* the same outcome for the caller and the same data and ledger.  Stated of
\* the database a call finds: the results the forced call can have are the
\* results the unforced call on the 'all' migration can have, one for each
\* pattern of failures.
C15_ForceIsIgnoreAll ==
    last.op = "none" =>
        /\ MigrationApply(TheMigration, Fresh(conn), TheTable, TRUE) =
              MigrationApply(AllIgnored(TheMigration), Fresh(conn), TheTable, FALSE)
        /\ MigrationRollback(TheMigration, Fresh(conn), TheTable, TRUE) =
              MigrationRollback(AllIgnored(TheMigration), Fresh(conn), TheTable, FALSE)

\* C15 witness: a forced apply of two Transactions that ignore no error, the
\* first of which failed.
C15_Witness ==
    /\ last.op = "Migration.apply"
    /\ last.force
    /\ Len(TheMigration.steps) = 2
    /\ \A t \in 1..2 : TheMigration.steps[t].ignore_errors = "None"
    /\ Events(conn.log, {"execute", "execute failed"})[1][1] = "execute failed"
    /\ Count(conn.log, {"commit"}) = 2
    /\ last.exc = None

\* C16: with force set, a failed step does not prevent the remaining steps
\* from running: every step of the migration is attempted (applied by
\* Migration.apply, rolled back by Migration.rollback) even if previous steps
\* have failed.
C16_ForceAttemptsEveryStep ==
    (last.op \in {"Migration.apply", "Migration.rollback"} /\ last.force) =>
        Range(Attempted(conn.log, IF last.op = "Migration.apply"
                                  THEN "applying step" ELSE "rolling back step"))
           = Range(StepIds([steps |-> Flatten(TheMigration.steps)]))

(***************************************************************************)
(* The interactive selector: prompt_migrations and the end of main()       *)
(* (scripts/migrate.py), one step per response of the operator.            *)
(***************************************************************************)
MaxCandidates == 3

Max(a, b) == IF a > b THEN a ELSE b

\* The options of the prompt of prompt_migrations, 'ynvdaqjk?'.
Options == {"y", "n", "v", "d", "a", "q", "j", "k", "?"}

\* What an operator at the terminal answers: one of the options, or Enter.
Keys == Options \cup {"Enter"}

\* What getch() may deliver besides: an upper-case letter, a character that
\* is no option, and '' when the read finds the input closed.
Inputs == Keys \cup {"Y", "x", ""}

\* ch.lower()
Lower(ch) == IF ch = "Y" THEN "y" ELSE ch

\* utils.prompt on one character read.  Enter stands for the option shown
\* in upper case, the first option when none is; `ch.lower() not in
\* options.lower()` is a substring test, which the empty string passes; on
\* any other character prompt() asks again.
prompt(key, default) ==
    LET ch == IF key = "Enter"
              THEN (IF default \in Options THEN default ELSE "y")
              ELSE key
    IN  IF Lower(ch) \in Options \cup {""} THEN Lower(ch) ELSE "again"

\* Mutant: the suggestion of direction 'apply' made in every direction.
DefaultChoiceApplyOnly(sel, list, c) ==
    LET recorded == sel.choice[sel.position + 1]
        applied == isapplied(list.items[sel.position + 1], c, list.migration_table)
    IN  IF recorded # "None" THEN recorded
        ELSE (IF applied THEN "n" ELSE "y")

\* prompt_migrations: the option shown in upper case, the recorded choice or,
\* for an undecided candidate, what the ledger and the direction suggest.
DefaultChoice(sel, list, c) ==
    LET recorded == sel.choice[sel.position + 1]
        applied == isapplied(list.items[sel.position + 1], c, list.migration_table)
    IN  IF recorded # "None" THEN recorded
        ELSE IF sel.direction = "apply"
             THEN (IF applied THEN "n" ELSE "y")
             ELSE (IF applied THEN "y" ELSE "n")

\* Mutant: every candidate not refused is returned.
ChosenNotRefused(list, choice) ==
    LET idx == SelectSeq([i \in 1..Len(list.items) |-> i], LAMBDA i : choice[i] # "n")
    IN  MigrationList(list.migration_table, [k \in 1..Len(idx) |-> list.items[idx[k]]],
                      list.post_apply)

\* prompt_migrations, the return statement:
\* migrations.replace(m.migration for m in migrations if m.choice == 'y')
Chosen(list, choice) ==
    LET idx == SelectSeq([i \in 1..Len(list.items) |-> i], LAMBDA i : choice[i] = "y")
    IN  MigrationList(list.migration_table, [k \in 1..Len(idx) |-> list.items[idx[k]]],
                      list.post_apply)

\* prompt_migrations, `while position < len(migrations)` and the breaks: the
\* function returns when the cursor is past the end or a response broke out.
Continue(sel, list, break) ==
    IF break \/ sel.position >= Len(list.items)
    THEN [sel EXCEPT !.pc = "returned", !.output = Chosen(list, sel.choice).items]
    ELSE sel

\* prompt_migrations, up to its first prompt: every candidate undecided
\* (prompted_migration.choice = None), the cursor at 0.
PromptMigrations(list, direction) ==
    Continue([pc |-> "prompting", direction |-> direction, position |-> 0,
              choice |-> [i \in 1..Len(list.items) |-> "None"],
              before |-> [i \in 1..Len(list.items) |-> "None"],
              response |-> "", from |-> 0, key |-> "none", output |-> <<>>], list, FALSE)

\* Mutant: 'a' marking the candidates after the current one only.
RespondAllAfter(s0, list, p) ==
    Continue([s0 EXCEPT !.choice = [i \in 1..Len(list.items) |->
                                       IF i > p + 1 THEN "y" ELSE @[i]]], list, TRUE)

\* prompt_migrations, response 'a': for mig in migrations[position:], break
RespondAll(s0, list, p) ==
    Continue([s0 EXCEPT !.choice = [i \in 1..Len(list.items) |->
                                       IF i > p THEN "y" ELSE @[i]]], list, TRUE)

\* Mutant: 'q' refusing the current candidate and those after it only.
RespondQuitRemaining(s0, list, p) ==
    Continue([s0 EXCEPT !.choice = [i \in 1..Len(list.items) |->
                                       IF i > p THEN "n" ELSE @[i]]], list, TRUE)

\* prompt_migrations, response 'q': for mig in migrations, break
RespondQuit(s0, list, p) ==
    Continue([s0 EXCEPT !.choice = [i \in 1..Len(list.items) |-> "n"]], list, TRUE)

\* Mutant: 'd' taking the current candidate along.
RespondDoneWithCurrent(s0, list, p) ==
    Continue([s0 EXCEPT !.choice[p + 1] = "y"], list, TRUE)

\* prompt_migrations, response 'd': break
RespondDone(s0, list, p) == Continue(s0, list, TRUE)

\* prompt_migrations, responses '?' and 'v': print, continue
RespondShow(s0, list, p) == s0

\* Mutant: 'y' and 'n' recorded with the cursor left where it is.
RespondChoiceStaying(s0, list, p) ==
    Continue([s0 EXCEPT !.choice[p + 1] = s0.response], list, FALSE)

\* prompt_migrations, `if response in 'yn'` (a substring test: 'y', 'n' and
\* the empty string): mig.choice = response, position += 1, continue
RespondChoice(s0, list, p) ==
    Continue([s0 EXCEPT !.choice[p + 1] = s0.response, !.position = p + 1], list, FALSE)

\* Mutant: 'j' refusing the candidate it skips.
RespondNextRefusing(s0, list, p) ==
    Continue([s0 EXCEPT !.choice[p + 1] = "n", !.position = Min(Len(list.items), p + 1)],
             list, FALSE)

\* Mutant: 'j' staying on the last candidate.
RespondNextStayingInside(s0, list, p) ==
    Continue([s0 EXCEPT !.position = Min(Len(list.items) - 1, p + 1)], list, FALSE)

\* prompt_migrations, response 'j': position = min(len(migrations),
\* position + 1), continue
RespondNext(s0, list, p) ==
    Continue([s0 EXCEPT !.position = Min(Len(list.items), p + 1)], list, FALSE)

\* prompt_migrations, response 'k': position = max(0, position - 1); none of
\* the tests for 'd', 'a', 'q' that follow holds.
RespondPrevious(s0, list, p) ==
    Continue([s0 EXCEPT !.position = Max(0, p - 1)], list, FALSE)

\* prompt_migrations, one turn of the loop on the operator's key.
Respond(sel, list, c, key) ==
    LET n == Len(list.items)
        p == sel.position
        response == prompt(key, DefaultChoice(sel, list, c))
        s0 == [sel EXCEPT !.response = response, !.before = sel.choice, !.from = p,
                          !.key = key]
    IN  CASE response = "again" -> sel
          [] response \in {"?", "v"} -> RespondShow(s0, list, p)
          [] response \in {"y", "n", ""} -> RespondChoice(s0, list, p)
          [] response = "j" -> RespondNext(s0, list, p)
          [] response = "k" -> RespondPrevious(s0, list, p)
          [] response = "d" -> RespondDone(s0, list, p)
          [] response = "a" -> RespondAll(s0, list, p)
          [] response = "q" -> RespondQuit(s0, list, p)

\* main: the candidates, the list as read (--all) or the view of the command.
Candidates(list, c, command, all) ==
    IF all THEN list
    ELSE IF command = "apply" THEN to_apply(list, c) ELSE to_rollback(list, c)

\* Mutant: reapply going on to apply whatever the rollback did.
CommandApplyRegardless(command, list, c, force) ==
    CASE command = "apply" -> MigrationListApply(list, c, force)
      [] command = "rollback" -> MigrationListRollback(list, c, force)
      [] command = "reapply" ->
            UNION { MigrationListApply(list, r.conn, force)
                    : r \in MigrationListRollback(list, c, force) }

\* main: the command carried out on the list; reapply is rollback, then apply.
Command(command, list, c, force) ==
    CASE command = "apply" -> MigrationListApply(list, c, force)
      [] command = "rollback" -> MigrationListRollback(list, c, force)
      [] command = "reapply" ->
            UNION { IF r.exc = None THEN MigrationListApply(list, r.conn, force) ELSE {r}
                    : r \in MigrationListRollback(list, c, force) }

Commands == {"apply", "rollback", "reapply"}

\* The lists of the selector's runs: up to MaxCandidates scripts of one step
\* in its own Transaction, and a post-apply script.
SelectorLists ==
    { MigrationList(default_migration_table,
                    [i \in 1..n |-> Migration(i, <<Transaction(<<MigrationStep(i, 0, TRUE)>>,
                                                               "None")>>, "Migration")],
                    <<Migration(PostApplyId,
                                <<Transaction(<<MigrationStep(PostApplyId, 0, TRUE)>>, "None")>>,
                                "PostApplyHookMigration")>>)
      : n \in 1..MaxCandidates }

\* The database after an earlier run applied the first k members of the list.
AppliedUpTo(list, k) ==
    Fresh((CHOOSE r \in MigrationListApply(MigrationList(list.migration_table,
                                                         SubSeq(list.items, 1, k),
                                                         list.post_apply),
                                           NewConn, FALSE) : ~Failed(r.conn.log)).conn)

InitSel ==
    /\ migrations \in SelectorLists
    /\ \E k \in 0..Len(migrations.items) : conn = AppliedUpTo(migrations, k)
    /\ \E command \in Commands : \E all \in BOOLEAN :
          /\ selected = Candidates(migrations, conn, command, all)
          /\ selector = PromptMigrations(selected, command)
    /\ last = NoCall
    /\ history = [id \in 1..Len(migrations.items) |-> "none"]
    /\ ncalls = 0
    /\ runs = NoRuns

\* The operator answers the prompt of prompt_migrations.
Keystroke ==
    /\ selector.pc = "prompting"
    /\ \E key \in Keys : selector' = Respond(selector, selected, conn, key)
    /\ UNCHANGED <<migrations, selected, conn, last, history, ncalls, runs>>

\* main: the operator does not confirm the selection, and main returns.
Decline ==
    /\ selector.pc = "returned"
    /\ selector.output # <<>>
    /\ selector' = [selector EXCEPT !.pc = "done"]
    /\ UNCHANGED <<migrations, selected, conn, last, history, ncalls, runs>>

\* main: the command is carried out on the selection (confirmed, if not
\* empty).
RunCommand ==
    /\ selector.pc = "returned"
    /\ \E force \in BOOLEAN :
       \E r \in Command(selector.direction,
                         MigrationList(selected.migration_table, selector.output,
                                       selected.post_apply),
                         Fresh(conn), force) :
          /\ conn' = r.conn
          /\ last' = Call(selector.direction, 0, force, r, conn)
    /\ selector' = [selector EXCEPT !.pc = "done"]
    /\ ncalls' = ncalls + 1
    /\ UNCHANGED <<migrations, selected, history, runs>>

NextSel == Keystroke \/ Decline \/ RunCommand

SpecSel == InitSel /\ [][NextSel]_vars

(***************************************************************************)
(* Selector claims (SpecSel).                                              *)
(***************************************************************************)
Stopped == selector.pc \in {"returned", "done"}

\* The candidates at the given places, in the order of the candidates.
CandidatesAt(places) ==
    LET idx == SelectSeq([i \in 1..Len(selected.items) |-> i], LAMBDA i : i \in places)
    IN  [k \in 1..Len(idx) |-> selected.items[idx[k]]]

\* C17: when the selector has stopped its output holds exactly the
\* candidates whose choice is 'y', in the order of the input list, each
\* once; no undecided or refused candidate is in it.
C17_OutputIsChosen ==
    LET out == selector.output
        items == selected.items
    IN  /\ ~Stopped => out = <<>>
        /\ Stopped =>
              /\ \A i \in 1..Len(items) :
                    (selector.choice[i] = "y") <=> (items[i] \in Range(out))
              /\ \A k \in 1..Len(out) : out[k] \in Range(items)
              /\ \A k, l \in 1..Len(out) : k < l => Pos(items, out[k]) < Pos(items, out[l])

\* C17 witness: of three candidates the first was chosen, the second left
\* undecided and the third refused.
C17_Witness ==
    /\ Stopped
    /\ selector.choice = <<"y", "None", "n">>
    /\ selector.output = <<selected.items[1]>>

\* C18: 'a' with the cursor at position p sets the choice of every candidate
\* at index >= p to 'y' whatever was recorded for it, leaves the choices
\* below p as they were, and stops the selector, whose output is then the
\* candidates from p on and those chosen before.
C18_AllRemaining ==
    selector.response = "a" =>
        /\ Stopped
        /\ \A i \in 1..Len(selected.items) :
              selector.choice[i] = (IF i > selector.position THEN "y" ELSE selector.before[i])
        /\ selector.output =
              CandidatesAt({ i \in 1..Len(selected.items) :
                               i > selector.position \/ selector.before[i] = "y" })

\* C18 witness: three candidates and the input n, a: the output is the
\* second and the third candidate.
C18_Witness ==
    /\ selector.response = "a"
    /\ Len(selected.items) = 3
    /\ selector.position = 1
    /\ selector.before = <<"n", "None", "None">>
    /\ selector.output = <<selected.items[2], selected.items[3]>>

\* C19: 'q' at any cursor position, after any earlier responses, marks every
\* candidate 'n' and stops; the output is the empty list, and the run that
\* follows changes nothing: no statement is executed, no hook runs, data and
\* ledger are as they were.
C19_QuitCancels ==
    selector.response = "q" =>
        /\ Stopped
        /\ \A i \in 1..Len(selected.items) : selector.choice[i] = "n"
        /\ selector.output = <<>>
        /\ selector.pc = "done" =>
              /\ last.op \in Commands
              /\ last.exc = None
              /\ conn.log = <<>>
              /\ conn.work = last.before.work
              /\ conn.committed = last.before.committed

\* C19 witness: 'q' at the second candidate after the first one was chosen,
\* and the command has run.
C19_Witness ==
    /\ selector.response = "q"
    /\ selector.position = 1
    /\ selector.before[1] = "y"
    /\ selector.pc = "done"
    /\ last.op \in Commands

\* C20: 'd' stops the selector at once and changes no choice: the output is
\* exactly the candidates already marked 'y', and every candidate undecided
\* at that moment, the current one or another, is left out.
C20_DoneKeepsChoices ==
    selector.response = "d" =>
        /\ Stopped
        /\ selector.choice = selector.before
        /\ selector.output = CandidatesAt({ i \in 1..Len(selected.items) : selector.before[i] = "y" })
        /\ \A i \in 1..Len(selected.items) :
              selector.before[i] = "None" => selected.items[i] \notin Range(selector.output)

\* C20 witness: j, y, d on three candidates: the first and the current one
\* are undecided, the second is the output.
C20_Witness ==
    /\ selector.response = "d"
    /\ selector.position = 2
    /\ selector.choice = <<"None", "y", "None">>
    /\ selector.output = <<selected.items[2]>>

\* The members a call invoked in one direction, in order, from its log.
CalledFor(log, kind) == LET e == Events(log, {kind}) IN [k \in 1..Len(e) |-> e[k][2][1]]

\* What a list call on the selector's output invokes when nothing fails.
SelectedIds ==
    IF selector.output = <<>> THEN <<>> ELSE Ids(selector.output \o selected.post_apply)

\* C21: reapply is rollback and then apply over the same resolved list: the
\* members (and hooks) of the list are rolled back, once and in list order,
\* before any of them is applied, once and in the same order; apply starts
\* only when the rollback of the whole list has completed, and not at all
\* when the rollback phase raised.
C21_ReapplyIsRollbackThenApply ==
    last.op = "reapply" =>
        LET log == conn.log
            rolled == CalledFor(log, "Rolling back")
            applied == CalledFor(log, "Applying")
        IN  /\ IsPrefix(rolled, SelectedIds)
            /\ IsPrefix(applied, SelectedIds)
            /\ LET e == Events(log, {"Applying", "Rolling back"})
               IN  \A k \in 1..(Len(e) - 1) :
                      e[k][1] = "Applying" => e[k + 1][1] = "Applying"
            /\ applied # <<>> => rolled = SelectedIds
            /\ \A k \in RaisedAt(log) :
                  /\ \A j \in (k + 1)..Len(log) : log[j][1] \notin {"Applying", "Rolling back"}
                  /\ last.exc = <<"DatabaseError", log[k][2]>>
            /\ last.exc = None => (rolled = SelectedIds /\ applied = SelectedIds)

\* C21 witness: two selected members and the hook rolled back and then
\* applied.
C21_Witness ==
    /\ last.op = "reapply"
    /\ Len(selector.output) = 2
    /\ last.exc = None
    /\ Called(conn.log) = SelectedIds \o SelectedIds

(***************************************************************************)
(* SpecTable: a MigrationList read with a ledger table name, the default   *)
(* one or another, on a new database or on one where an earlier run has    *)
(* applied the same scripts under the other table name.                    *)
(***************************************************************************)
InitTable ==
    /\ \E l \in SelectorLists : \E T \in Tables : \E earlier \in BOOLEAN :
          /\ Len(l.items) <= MaxMigrations
          /\ migrations = [l EXCEPT !.migration_table = T]
          /\ conn = IF earlier
                    THEN AppliedUpTo([l EXCEPT !.migration_table =
                                                  CHOOSE t \in Tables : t # T],
                                     Len(l.items))
                    ELSE NewConn
    /\ selected = migrations
    /\ last = NoCall
    /\ history = [id \in 1..Len(migrations.items) |-> "none"]
    /\ ncalls = 0
    /\ selector = NoSelector
    /\ runs = NoRuns

SpecTable == InitTable /\ [][Next]_vars

\* C22: for a MigrationList built with ledger table name T, every ledger
\* INSERT and DELETE of its migrations targets T, the membership queries
\* (isapplied, to_apply, to_rollback) answer from T alone, and no other
\* migration table, the default one included, gains or loses a row.
C22_LedgerTableOnly ==
    LET T == TheTable
        ids == Range(Ids(migrations.items))
    IN  /\ \A k \in 1..Len(conn.log) :
              (/\ conn.log[k][1] \in {"execute", "execute failed"}
               /\ conn.log[k][2][1] \in {"INSERT", "DELETE"}) =>
                 conn.log[k][2][3] = T
        /\ \A t \in Tables \ {T} :
              /\ conn.work.ledger[t] \in {{}, ids}
              /\ conn.committed.ledger[t] = conn.work.ledger[t]
              /\ IsListCall => conn.work.ledger[t] = last.before.work.ledger[t]
        /\ \A k \in 1..Len(migrations.items) :
              LET X == migrations.items[k]
              IN  /\ isapplied(X, conn, T) <=> history[X.id] = "apply"
                  /\ X.id \in conn.committed.ledger[T] <=> history[X.id] = "apply"
                  /\ X \in Range(to_apply(migrations, conn).items) <=> history[X.id] # "apply"
                  /\ X \in Range(to_rollback(migrations, conn).items) <=> history[X.id] = "apply"

\* C22 witness: a list read with migration_table='another_migration_table'
\* and applied on a new database: its ids are in that table and the default
\* table is empty.
C22_Witness ==
    /\ TheTable = "another_migration_table"
    /\ last.op = "MigrationList.apply"
    /\ last.before = NewConn
    /\ last.exc = None
    /\ conn.committed.ledger["another_migration_table"] = Range(Ids(migrations.items))
    /\ conn.committed.ledger[default_migration_table] = {}

(***************************************************************************)
(* Compensation in _process_steps.                                         *)
(***************************************************************************)
\* The place of the log where the Transaction that ended the call failed:
\* its conn.rollback() is followed by the one of _process_steps.
PrimaryFailure(log) ==
    CHOOSE k \in 1..Len(log) : k \in RaisedAt(log) /\ log[k][2][1] # "INSERT"

\* The places in m.steps of the Transactions in executed_steps when the
\* Transaction at place f raised.
ExecutedSteps(m, f, direction) ==
    IF direction = "apply" THEN 1..(f - 1) ELSE (f + 1)..Len(m.steps)

\* What the logger shows first when the opposite direction is invoked on tx.
ReverseEntry(tx, direction) ==
    IF direction = "apply"
    THEN <<"rolling back step", <<tx.steps[Len(tx.steps)].id>>>>
    ELSE <<"applying step", <<tx.steps[1].id>>>>

\* The places of the log after place k where e was logged.
LoggedAfter(log, k, e) == { j \in (k + 1)..Len(log) : log[j] = e }

\* C23: when a Transaction raises during Migration.apply (or rollback), the
\* opposite direction is invoked on every Transaction recorded as executed,
\* in reverse order of execution, also after a secondary failure while
\* compensating one of them.
C23_CompensationReachesEveryExecuted ==
    (/\ last.op \in {"Migration.apply", "Migration.rollback"}
     /\ last.exc # None
     /\ last.exc[2][1] # "INSERT") =>
        LET log == conn.log
            m == TheMigration
            direction == IF last.op = "Migration.apply" THEN "apply" ELSE "rollback"
            k == PrimaryFailure(log)
            executed == ExecutedSteps(m, TxOf(m, log[k][2][3]), direction)
            at(t) == LoggedAfter(log, k, ReverseEntry(m.steps[t], direction))
        IN  /\ \A t \in executed : Cardinality(at(t)) = 1
            /\ \A t, u \in executed :
                  (IF direction = "apply" THEN t < u ELSE u < t) =>
                     \A i \in at(t), j \in at(u) : j < i

\* C24: the failure that Migration.apply or Migration.rollback propagates to
\* its caller is the original failure of the Transaction that raised (or of
\* the ledger INSERT), unchanged: the call raises exactly when such a failure
\* happened, and a DatabaseError logged while compensating never replaces it.
C24_OriginalFailurePropagates ==
    last.op \in {"Migration.apply", "Migration.rollback"} =>
        LET log == conn.log
        IN  /\ Cardinality(RaisedAt(log)) <= 1
            /\ last.exc # None => RaisedAt(log) # {}
            /\ \A k \in RaisedAt(log) : last.exc = <<"DatabaseError", log[k][2]>>
            /\ Count(log, {"Database error when reversing"}) > 0 =>
                  /\ last.exc # None
                  /\ last.exc[2][1] = (IF last.op = "Migration.apply"
                                       THEN "apply" ELSE "rollback")

\* C24 witness: an apply in which a step failed and the compensation failed
\* too; the caller gets the step's failure.
C24_Witness ==
    /\ last.op = "Migration.apply"
    /\ Count(conn.log, {"Database error when reversing"}) = 1
    /\ Events(conn.log, {"execute failed"})[2][2][1] = "rollback"
    /\ last.exc = <<"DatabaseError", Events(conn.log, {"execute failed"})[1][2]>>

(***************************************************************************)
(* Failures inside post-apply hooks (Spec).                                *)
(***************************************************************************)
\* The places of the log where a statement of the post-apply hook failed.
HookFailures(log) ==
    { k \in 1..Len(log) :
        /\ log[k][1] = "execute failed"
        /\ log[k][2][1] \in {"apply", "rollback"}
        /\ log[k][2][2] = PostApplyId }

\* C25: a database failure of a step inside a post-apply hook never leaves
\* MigrationList.apply or MigrationList.rollback, whatever force value the
\* caller passed: the failure is rolled back and logged as ignored, a call
\* in which a hook statement failed returns normally, and a failure that
\* does leave the call is one of a Normal member.
C25_HookFailureNeverPropagates ==
    IsListCall =>
        LET log == conn.log
        IN  /\ \A k \in HookFailures(log) :
                  /\ last.exc = None
                  /\ k + 2 <= Len(log)
                  /\ log[k + 1][1] = "rollback"
                  /\ log[k + 2][1] = "Ignored error in step"
            /\ last.exc # None => last.exc[2][2] # PostApplyId

\* C25 witness: a call without force on a non-empty list whose hook
\* statement failed, and which returned normally.
C25_Witness ==
    /\ IsListCall
    /\ ~last.force
    /\ selected.items # <<>>
    /\ HookFailures(conn.log) # {}
    /\ last.exc = None

(***************************************************************************)
(* Steps without a rollback action (SpecMig).                              *)
(***************************************************************************)
\* The steps of m that have no rollback action.
Irreversible(m) ==
    { st \in Range(Flatten(m.steps)) : st._rollback = None }

\* The places of the log where a rollback statement of the step was executed
\* or tried.
RollbackExecutedFor(log, st) ==
    { k \in 1..Len(log) :
        /\ log[k][1] \in {"execute", "execute failed"}
        /\ log[k][2][1] = "rollback"
        /\ log[k][2][3] = st.id }

\* C26: in Migration.rollback the rollback of a step with no rollback
\* action is a silent no-op: no rollback statement is executed for it, it
\* cannot fail, and its applied effect stays in the database; the rollback
\* of a migration made of such steps only returns normally; a rollback in
\* which no statement fails announces every step, last to first; and whenever
\* the rollback returns the ledger row of the migration is gone.
C26_IrreversibleStepIsNoOp ==
    last.op = "Migration.rollback" =>
        LET m == TheMigration
            log == conn.log
        IN  /\ \A st \in Irreversible(m) :
                  /\ RollbackExecutedFor(log, st) = {}
                  /\ Occurrences(conn.committed.db, st._apply)
                        >= Occurrences(last.before.committed.db, st._apply)
                  /\ last.exc = None =>
                        Occurrences(conn.committed.db, st._apply)
                           = Occurrences(last.before.committed.db, st._apply)
                  /\ last.exc # None => last.exc[2][3] # st.id
            /\ Irreversible(m) = Range(Flatten(m.steps)) =>
                  /\ last.exc = None
                  /\ conn.committed.db = last.before.committed.db
            /\ ~Failed(log) =>
                  /\ last.exc = None
                  /\ Attempted(log, "rolling back step")
                        = Reverse(StepIds([steps |-> Flatten(m.steps)]))
            /\ last.exc = None => m.id \notin conn.committed.ledger[TheTable]

\* C26 witness: the rollback of an applied migration that has a step with a
\* rollback action and a step without one returned: the row is gone and the
\* effect of the step without rollback action is still there.
C26_Witness ==
    /\ last.op = "Migration.rollback"
    /\ last.exc = None
    /\ ~Failed(conn.log)
    /\ TheMigration.id \in last.before.committed.ledger[TheTable]
    /\ TheMigration.id \notin conn.committed.ledger[TheTable]
    /\ Irreversible(TheMigration) # {}
    /\ Irreversible(TheMigration) # Range(Flatten(TheMigration.steps))
    /\ \A st \in Irreversible(TheMigration) :
          Occurrences(conn.committed.db, st._apply) = 1

(***************************************************************************)
(* SpecCrash: Migration.apply and Migration.rollback cut short by a crash  *)
(* of the process, and the run that follows.  What survives a crash is     *)
(* what the connection had committed at that point of the call.            *)
(***************************************************************************)
\* The connection after one more event of a call's log.
ReplayEvent(c, e) ==
    IF e[1] = "execute"
    THEN IF e[2][1] = "INSERT" THEN [c EXCEPT !.work.ledger[e[2][3]] = @ \cup {e[2][2]}]
         ELSE IF e[2][1] = "DELETE" THEN [c EXCEPT !.work.ledger[e[2][3]] = @ \ {e[2][2]}]
         ELSE [c EXCEPT !.work.db = Effect(@, e[2])]
    ELSE IF e[1] = "commit" THEN [c EXCEPT !.committed = c.work]
    ELSE IF e[1] = "rollback" THEN [c EXCEPT !.work = c.committed]
    ELSE c

\* The connection after the first k events of the log of a call.
RECURSIVE Replay(_, _, _)
Replay(c, log, k) ==
    IF k = 0 THEN c ELSE ReplayEvent(Replay(c, log, k - 1), log[k])

\* The database a new connection finds when the process died after the first
\* k events of a call: what was committed by then.
Crashed(before, log, k) ==
    LET c == Replay(before, log, k)
    IN  [work |-> c.committed, committed |-> c.committed, log |-> SubSeq(log, 1, k)]

\* The migrations of SpecCrash: every step with a rollback action, no
\* ignore_errors policy.
CrashScripts ==
    { steps \in TransactionSeqs(1, 0, MaxMigSteps, MaxTx) :
        \A t \in 1..Len(steps) :
            /\ steps[t].ignore_errors = "None"
            /\ \A k \in 1..Len(steps[t].steps) : steps[t].steps[k]._rollback # None }

InitCrash ==
    /\ \E steps \in CrashScripts :
          migrations = MigrationList(default_migration_table,
                                     <<Migration(1, steps, "Migration")>>, <<>>)
    /\ selected = migrations
    /\ conn \in {NewConn, Applied(migrations.items[1], migrations.migration_table)}
    /\ last = NoCall
    /\ history = [m \in {1} |-> "none"]
    /\ ncalls = 0
    /\ selector = NoSelector
    /\ runs = NoRuns

\* The process dies during Migration.apply, after any number of events.
CrashDuringApply ==
    /\ ncalls = 0
    /\ ncalls' = 1
    /\ \E force \in BOOLEAN :
       \E r \in MigrationApply(TheMigration, Fresh(conn), migrations.migration_table, force) :
       \E k \in 0..Len(r.conn.log) :
          /\ conn' = Crashed(Fresh(conn), r.conn.log, k)
          /\ last' = [op |-> "Migration.apply", target |-> 1, force |-> force,
                      exc |-> <<"Crash", k>>, before |-> Fresh(conn)]
    /\ UNCHANGED <<migrations, selected, history, selector, runs>>

\* The process dies during Migration.rollback, after any number of events.
CrashDuringRollback ==
    /\ ncalls = 0
    /\ ncalls' = 1
    /\ \E force \in BOOLEAN :
       \E r \in MigrationRollback(TheMigration, Fresh(conn), migrations.migration_table, force) :
       \E k \in 0..Len(r.conn.log) :
          /\ conn' = Crashed(Fresh(conn), r.conn.log, k)
          /\ last' = [op |-> "Migration.rollback", target |-> 1, force |-> force,
                      exc |-> <<"Crash", k>>, before |-> Fresh(conn)]
    /\ UNCHANGED <<migrations, selected, history, selector, runs>>

\* The next run of 'apply' on what the crash left: the view is to_apply().
RerunApply ==
    /\ ncalls = 1
    /\ ncalls' = 2
    /\ \E r \in MigrationListApply(to_apply(migrations, Fresh(conn)), Fresh(conn), FALSE) :
          /\ conn' = r.conn
          /\ last' = Call("apply", 0, FALSE, r, conn)
    /\ UNCHANGED <<migrations, selected, history, selector, runs>>

\* The next run of 'rollback' on what the crash left: the view is
\* to_rollback().
RerunRollback ==
    /\ ncalls = 1
    /\ ncalls' = 2
    /\ \E r \in MigrationListRollback(to_rollback(migrations, Fresh(conn)), Fresh(conn), FALSE) :
          /\ conn' = r.conn
          /\ last' = Call("rollback", 0, FALSE, r, conn)
    /\ UNCHANGED <<migrations, selected, history, selector, runs>>

NextCrash ==
    \/ MigrationApplyCall
    \/ MigrationRollbackCall
    \/ CrashDuringApply
    \/ CrashDuringRollback
    \/ RerunApply
    \/ RerunRollback

SpecCrash == InitCrash /\ [][NextCrash]_vars

\* The call was cut short by a crash.
IsCrash == last.exc # None /\ last.exc[1] = "Crash"

\* The apply statements of m, in the order Migration.apply executes them.
AllApplied(m) == [k \in 1..Len(Flatten(m.steps)) |-> Flatten(m.steps)[k]._apply]

\* Every Transaction of the call has committed, none failed, and the commit
\* of the ledger statement has not happened.
BetweenCommits(m, log) ==
    /\ ~Failed(log)
    /\ Count(log, {"commit"}) = Len(m.steps)

\* Schema changed, ledger not reflecting it.
AppliedUnrecorded(m, c) ==
    /\ c.committed.db = AllApplied(m)
    /\ m.id \notin c.committed.ledger[TheTable]

\* Schema reverted, ledger still holding the row.
RevertedRecorded(m, c) ==
    /\ c.committed.db = <<>>
    /\ m.id \in c.committed.ledger[TheTable]

\* C27: the ledger write is not atomic with the step commits.  A crash of
\* Migration.apply on a new database after the last Transaction's commit and
\* before the commit of the INSERT leaves every step committed and no ledger
\* row (without a failed statement the ledger is never ahead of the steps,
\* and both are written when the call returns); a crash of
\* Migration.rollback after the last Transaction's commit and before the
\* commit of the DELETE leaves every step rolled back and the row in place.
\* Nothing repairs either state: the next 'apply' run executes the steps of
\* the unrecorded migration a second time and the next 'rollback' run does
\* nothing; for the recorded but reverted one it is the other way round.
C27_LedgerWriteNotAtomic ==
    LET m == TheMigration
        T == TheTable
    IN  /\ (last.op = "Migration.apply" /\ m.id \notin last.before.committed.ledger[T]) =>
              /\ (m.id \in conn.committed.ledger[T] /\ ~Failed(conn.log)) =>
                    conn.committed.db = AllApplied(m)
              /\ (IsCrash /\ BetweenCommits(m, conn.log)) =>
                    /\ AppliedUnrecorded(m, conn)
                    /\ ~isapplied(m, conn, T)
              /\ (last.exc = None /\ ~Failed(conn.log)) =>
                    (m.id \in conn.committed.ledger[T] /\ conn.committed.db = AllApplied(m))
        /\ (last.op = "Migration.rollback" /\ m.id \in last.before.committed.ledger[T]) =>
              /\ (m.id \notin conn.committed.ledger[T] /\ ~Failed(conn.log)) =>
                    conn.committed.db = <<>>
              /\ (IsCrash /\ BetweenCommits(m, conn.log)) =>
                    /\ RevertedRecorded(m, conn)
                    /\ isapplied(m, conn, T)
              /\ (last.exc = None /\ ~Failed(conn.log)) =>
                    (m.id \notin conn.committed.ledger[T] /\ conn.committed.db = <<>>)
        /\ (last.op = "apply" /\ AppliedUnrecorded(m, last.before)) =>
              /\ Called(conn.log) = <<m.id>>
              /\ last.exc = None => conn.committed.db = AllApplied(m) \o AllApplied(m)
        /\ (last.op = "rollback" /\ AppliedUnrecorded(m, last.before)) =>
              /\ conn.log = <<>>
              /\ AppliedUnrecorded(m, conn)
        /\ (last.op = "apply" /\ RevertedRecorded(m, last.before)) =>
              /\ conn.log = <<>>
              /\ RevertedRecorded(m, conn)
        /\ (last.op = "rollback" /\ RevertedRecorded(m, last.before)) =>
              Called(conn.log) = <<m.id>>

\* C27 witness: Migration.apply of two Transactions on a new database, cut
\* short after both committed: both statements are in the database and the
\* ledger has no row for the migration.
C27_Witness ==
    /\ last.op = "Migration.apply"
    /\ IsCrash
    /\ last.before = NewConn
    /\ Len(TheMigration.steps) = 2
    /\ BetweenCommits(TheMigration, conn.log)
    /\ AppliedUnrecorded(TheMigration, conn)

(***************************************************************************)
(* SpecRace: two runs of 'apply' in batch mode, each a process with its    *)
(* own connection and its own --force, on the same database and ledger     *)
(* table.  A run reads the                                                 *)
(* ledger once, when it builds its view with to_apply(); its members are   *)
(* then applied one at a time, and the runs interleave between members.    *)
(***************************************************************************)
Runs == {1, 2}

\* The directory both runs read: scripts of one step each.
RaceLists ==
    { MigrationList(default_migration_table,
                    [i \in 1..n |-> Migration(i, <<Transaction(<<MigrationStep(i, 0, TRUE)>>,
                                                               "None")>>,
                                              "Migration")],
                    <<>>)
      : n \in 1..MaxMigrations }

InitRace ==
    /\ migrations \in RaceLists
    /\ selected = migrations
    /\ conn = NewConn
    /\ last = NoCall
    /\ history = [id \in 1..Len(migrations.items) |-> "none"]
    /\ ncalls = 0
    /\ selector = NoSelector
    /\ runs \in [Runs -> { [pc |-> "start", view |-> migrations, position |-> 0,
                             force |-> f, exc |-> None, log |-> <<>>] : f \in BOOLEAN }]

\* main: read_migrations(...).to_apply() on what is committed by now.
Observe(r) ==
    /\ runs[r].pc = "start"
    /\ LET view == to_apply(migrations, conn)
       IN  runs' = [runs EXCEPT ![r] = [@ EXCEPT !.view = view,
                                                !.pc = IF view.items = <<>>
                                                       THEN "done" ELSE "applying"]]
    /\ UNCHANGED <<migrations, selected, conn, last, history, ncalls, selector>>

\* MigrationList.apply of run r, one turn of its loop.  A failure ends the
\* run, and what its connection had not committed is lost with it.
ApplyNext(r) ==
    /\ runs[r].pc = "applying"
    /\ LET view == runs[r].view
           k == runs[r].position + 1
       IN  \E o \in ApplyMember(view.items[k], Fresh(conn), view.migration_table,
                                 runs[r].force) :
              /\ conn' = [o.conn EXCEPT !.work = o.conn.committed]
              /\ runs' = [runs EXCEPT ![r] = [@ EXCEPT !.position = k,
                                                       !.exc = o.exc,
                                                       !.log = @ \o o.conn.log,
                                                       !.pc = IF o.exc # None
                                                                 \/ k = Len(view.items)
                                                              THEN "done" ELSE "applying"]]
    /\ UNCHANGED <<migrations, selected, last, history, ncalls, selector>>

NextRace == \E r \in Runs : Observe(r) \/ ApplyNext(r)

SpecRace == InitRace /\ [][NextRace]_vars

\* The apply statement of the one step of a script of RaceLists.
ApplyStatement(X) == X.steps[1].steps[1]._apply

\* The runs that executed the apply statement of X.
Executors(X) ==
    { r \in Runs : \E k \in 1..Len(runs[r].log) :
                      runs[r].log[k] = <<"execute", ApplyStatement(X)>> }

\* The runs that found X not applied when they built their view.
Observers(X) == { r \in Runs : runs[r].pc # "start" /\ X \in Range(runs[r].view.items) }

\* Run r is past X in its view.
Past(r, X) ==
    \E k \in 1..runs[r].position : runs[r].view.items[k] = X

\* C28: two runs on the same database and ledger table are not
\* synchronized.  A run applies every member of the view it built, in order,
\* whatever the ledger holds by then; the database has X's statement once
\* per run that executed it; so when both runs saw X as not applied and both
\* got past X with its statement succeeding, X's step is applied twice, and
\* a run that raises at the ledger INSERT has executed X's step before.
C28_RunsNotSynchronized ==
    /\ \A r \in Runs :
          /\ runs[r].pc # "start" =>
                Called(runs[r].log) = SubSeq(Ids(runs[r].view.items), 1, runs[r].position)
          /\ runs[r].pc = "start" => runs[r].log = <<>>
    /\ \A X \in Range(migrations.items) :
          /\ Occurrences(conn.committed.db, ApplyStatement(X)) = Cardinality(Executors(X))
          /\ Executors(X) \subseteq Observers(X)
          /\ (/\ Observers(X) = Runs
              /\ \A r \in Runs :
                    /\ Past(r, X)
                    /\ \A k \in 1..Len(runs[r].log) :
                          runs[r].log[k] # <<"execute failed", ApplyStatement(X)>>) =>
                 /\ Occurrences(conn.committed.db, ApplyStatement(X)) = 2
                 /\ \E r \in Runs :
                       runs[r].exc = <<"DatabaseError", <<"INSERT", X.id, TheTable>>>>
          /\ \A r \in Runs :
                runs[r].exc = <<"DatabaseError", <<"INSERT", X.id, TheTable>>>> =>
                   /\ X.id \in conn.committed.ledger[TheTable]
                   /\ Past(r, X)
                   /\ Cardinality(Observers(X)) = 2

\* C28 witness: both runs built their view before either inserted the row
\* of migration 1, and both executed its step: the statement is in the
\* database twice.
C28_Witness ==
    /\ \A r \in Runs : runs[r].pc = "done" /\ runs[r].view = migrations
    /\ Executors(migrations.items[1]) = Runs
    /\ Occurrences(conn.committed.db, ApplyStatement(migrations.items[1])) = 2
    /\ 1 \in conn.committed.ledger[TheTable]

(***************************************************************************)
(* The selector, key by key (SpecSel).  selector.from and selector.before  *)
(* are the cursor and the choices as the last response found them.         *)
(***************************************************************************)
\* C29: entering 'y' or 'n' (or Enter where one of them is the default)
\* records that decision for the candidate under the cursor, replacing any
\* decision recorded for it earlier, changes no other candidate's choice,
\* and advances the cursor by exactly one.
C29_ChoiceRecordedCursorAdvances ==
    selector.response \in {"y", "n"} =>
        /\ selector.choice[selector.from + 1] = selector.response
        /\ \A i \in 1..Len(selector.choice) :
              i # selector.from + 1 => selector.choice[i] = selector.before[i]
        /\ selector.position = selector.from + 1
        /\ Len(selector.choice) = Len(selector.before)

\* C29 witness: 'n' entered on a candidate accepted earlier, with another
\* decision on record.
C29_Witness ==
    /\ selector.response = "n"
    /\ selector.before[selector.from + 1] = "y"
    /\ selector.choice[selector.from + 1] = "n"
    /\ \E i \in 1..Len(selector.choice) : i # selector.from + 1 /\ selector.choice[i] = "y"

\* C30: none of the keys v, ?, j, k changes a recorded choice; 'v' and '?'
\* leave the cursor where it is, 'j' moves it forward by one, 'k' back by
\* one but never below 0; and the cursor is always between 0 and the number
\* of candidates.
C30_MovesChangeNoChoice ==
    /\ selector.pc # "batch" =>
          (0 <= selector.position /\ selector.position <= Len(selected.items))
    /\ selector.response \in {"v", "?", "j", "k"} =>
          /\ selector.choice = selector.before
          /\ selector.response \in {"v", "?"} =>
                (selector.position = selector.from /\ selector.output = <<>>)
          /\ selector.response = "j" => selector.position = selector.from + 1
          /\ selector.response = "k" =>
                selector.position = (IF selector.from = 0 THEN 0 ELSE selector.from - 1)

\* C30 witness: 'k' entered at the first candidate, after going back over a
\* recorded decision: the cursor stays at 0 and the decision stands.
C30_Witness ==
    /\ selector.response = "k"
    /\ selector.from = 0
    /\ selector.position = 0
    /\ selector.choice[1] = "n"

(***************************************************************************)
(* SpecTerminal: the selector on whatever the terminal delivers, up to the *)
(* return of prompt_migrations.                                            *)
(***************************************************************************)
\* prompt() reads one character; prompt_migrations acts on what it returns.
TerminalInput ==
    /\ selector.pc = "prompting"
    /\ \E key \in Inputs : selector' = Respond(selector, selected, conn, key)
    /\ UNCHANGED <<migrations, selected, conn, last, history, ncalls, runs>>

NextTerminal == TerminalInput

SpecTerminal == InitSel /\ [][NextTerminal]_vars

\* C31: the selector records a decision, moves the cursor or stops only in
\* response to a keystroke from {y, n, v, d, a, q, j, k, ?}: after any other
\* input (another character, a newline, an empty read) the cursor and every
\* candidate's choice are as they were and the operator is asked again.
C31_OnlyOptionKeysAct ==
    selector.key \notin Options \cup {"none"} =>
        /\ selector.position = selector.from
        /\ selector.choice = selector.before
        /\ selector.pc = "prompting"

\* C32: for an undecided candidate the suggested default, which Enter
\* takes, comes from the ledger as it is at the prompt: with direction apply
\* it is 'y' if and only if the candidate has no ledger row, with any other
\* direction 'y' if and only if it has one.
C32_DefaultFromLedger ==
    (/\ selector.pc \in {"prompting", "returned"}
     /\ selector.key = "Enter"
     /\ selector.before[selector.from + 1] = "None") =>
        LET recorded == selected.items[selector.from + 1].id \in conn.committed.ledger[TheTable]
        IN  /\ selector.response \in {"y", "n"}
            /\ selector.response = "y" <=>
                  (IF selector.direction = "apply" THEN ~recorded ELSE recorded)
            /\ selector.choice[selector.from + 1] = selector.response

\* C32 witness: with direction rollback, Enter on an undecided candidate that
\* has no ledger row (listed by --all) refuses it.
C32_Witness ==
    /\ selector.pc \in {"prompting", "returned"}
    /\ selector.direction = "rollback"
    /\ selector.key = "Enter"
    /\ selector.before[selector.from + 1] = "None"
    /\ selected.items[selector.from + 1].id \notin conn.committed.ledger[TheTable]
    /\ selector.response = "n"

\* The selector as prompt_migrations starts it, and where it stops.
SelectorStartsAndStops ==
    selector.pc # "batch" =>
        /\ selector.key = "none" =>
              /\ selector.position = 0
              /\ \A i \in 1..Len(selector.choice) : selector.choice[i] = "None"
        /\ Len(selector.choice) = Len(selected.items)
        /\ Stopped <=> \/ selector.position >= Len(selected.items)
                       \/ selector.response \in {"d", "a", "q"}

\* A response y, n, j, d, a or q stops the selector or takes the cursor one
\* candidate further.
ProgressKey ==
    (/\ selector.pc = "prompting"
     /\ selector' # selector
     /\ selector'.key \in {"y", "n", "j", "d", "a", "q"}) =>
        \/ selector'.pc = "returned"
        \/ /\ selector'.pc = "prompting"
           /\ selector'.position = selector.position + 1

\* C33: the selector starts with the cursor at 0 and every candidate
\* undecided; it has stopped exactly when the cursor is past the last
\* candidate or the last response was d, a or q; and each response y, n, j,
\* d, a, q either stops it or advances the cursor by one, so that a run of
\* such responses stops it after at most as many keystrokes as there are
\* candidates at or after the cursor.
C33_SelectorStops == []SelectorStartsAndStops /\ [][ProgressKey]_vars

\* C33 witness: the selector stopped by 'j' on the last of three candidates,
\* the cursor past the end.
C33_Witness ==
    /\ selector.pc = "returned"
    /\ Len(selected.items) = 3
    /\ selector.position = 3
    /\ selector.from = 2
    /\ selector.key = "j"

\* The Normal members a call announced with the given word, in order.
MembersCalledFor(log, kind) ==
    SelectSeq(CalledFor(log, kind), LAMBDA id : id # PostApplyId)

\* C34: for reapply on the to_rollback() view (no --all), the apply phase
\* goes through the selected candidates in the order of the rollback phase,
\* which is the order of to_rollback(): latest migration first, the reverse
\* of the order in which read_migrations listed them.
C34_ReapplyInRollbackOrder ==
    (last.op = "reapply" /\ selected = to_rollback(migrations, last.before)) =>
        LET applied == MembersCalledFor(conn.log, "Applying")
            rolled == MembersCalledFor(conn.log, "Rolling back")
        IN  /\ IsPrefix(applied, rolled)
            /\ IsPrefix(rolled, Ids(selector.output))
            /\ \A k \in 1..(Len(applied) - 1) : applied[k] > applied[k + 1]
            /\ \A k \in 1..(Len(rolled) - 1) : rolled[k] > rolled[k + 1]
            /\ last.exc = None => applied = Ids(selector.output)

\* C34 witness: three applied migrations, all selected for reapply: rolled
\* back 3, 2, 1 and applied again 3, 2, 1.
C34_Witness ==
    /\ last.op = "reapply"
    /\ selected = to_rollback(migrations, last.before)
    /\ last.exc = None
    /\ MembersCalledFor(conn.log, "Rolling back") = <<3, 2, 1>>
    /\ MembersCalledFor(conn.log, "Applying") = <<3, 2, 1>>

(***************************************************************************)
(* SpecBatch: MigrationList.apply, once, on a new database, of a list      *)
(* whose members have two Transactions of one step each.                   *)
(***************************************************************************)
BatchLists ==
    UNION { { MigrationList(default_migration_table,
                            [i \in 1..n |->
                                Migration(i, <<Transaction(<<MigrationStep(i, 0, f[i][1])>>,
                                                           "None"),
                                               Transaction(<<MigrationStep(i, 1, f[i][2])>>,
                                                           "None")>>,
                                          "Migration")],
                            <<>>)
              : f \in [1..n -> [1..2 -> BOOLEAN]] }
          : n \in 1..MaxMigrations }

InitBatch ==
    /\ migrations \in BatchLists
    /\ selected = migrations
    /\ conn = NewConn
    /\ last = NoCall
    /\ history = [id \in 1..Len(migrations.items) |-> "none"]
    /\ ncalls = 0
    /\ selector = NoSelector
    /\ runs = NoRuns

\* migrations.apply(force) on the list as read
BatchApply ==
    /\ ncalls = 0
    /\ \E force \in BOOLEAN :
       \E r \in MigrationListApply(migrations, Fresh(conn), force) :
          /\ conn' = r.conn
          /\ last' = Call("MigrationList.apply", 0, force, r, conn)
          /\ history' = [id \in DOMAIN history |->
                            IF id \in Returned(r) THEN "apply" ELSE history[id]]
    /\ ncalls' = 1
    /\ UNCHANGED <<migrations, selected, selector, runs>>

NextBatch == BatchApply

SpecBatch == InitBatch /\ [][NextBatch]_vars

\* The place of the log where the last member invoked was announced.
LastMemberAt(log) ==
    CHOOSE k \in 1..Len(log) :
        /\ log[k][1] = "Applying"
        /\ \A j \in (k + 1)..Len(log) : log[j][1] # "Applying"

\* C35: when member i fails during MigrationList.apply, the members before i
\* stay applied: the ledger and the committed data of the moment member i
\* was invoked are still there (the ledger unchanged, the data a prefix of
\* what is committed now), every earlier member has its row, and every
\* statement executed from then on, compensation included, is one of
\* migration i.
C35_EarlierMembersStayApplied ==
    (last.op = "MigrationList.apply" /\ last.exc # None) =>
        LET log == conn.log
            k == LastMemberAt(log)
            i == log[k][2][1]
            then == Replay(last.before, log, k)
        IN  /\ conn.committed.ledger = then.committed.ledger
            /\ IsPrefix(then.committed.db, conn.committed.db)
            /\ \A x \in 1..(i - 1) :
                  /\ x \in conn.committed.ledger[TheTable]
                  /\ history[x] = "apply"
                  /\ ~last.force =>
                        IsPrefix(AllApplied(migrations.items[x]),
                                 SubSeq(conn.committed.db, 2 * x - 1, Len(conn.committed.db)))
            /\ \A j \in (k + 1)..Len(log) :
                  log[j][1] \in {"execute", "execute failed"} =>
                     (log[j][2][1] \in {"apply", "rollback"} /\ log[j][2][2] = i)

\* C35 witness: member 2 failed in its second Transaction and its first one
\* was compensated; member 1 is in the ledger with both its statements
\* committed.
C35_Witness ==
    /\ last.op = "MigrationList.apply"
    /\ last.exc = <<"DatabaseError", <<"apply", 2, 1>>>>
    /\ \E j \in 1..Len(conn.log) : conn.log[j] = <<"execute", <<"rollback", 2, 0>>>>
    /\ conn.committed.ledger[TheTable] = {1}
    /\ conn.committed.db = AllApplied(migrations.items[1])

\* C36: Migration.apply of a migration whose id is already in the ledger
\* never returns normally and leaves the ledger as it was, one row for the
\* id; when no step statement fails it executes and commits every
\* Transaction again, then fails at the ledger INSERT, and that failure
\* reaches the caller with no rollback invoked on any step: the statements
\* stay committed a second time.
C36_ReapplyOfRecordedFailsAtInsert ==
    (/\ last.op = "Migration.apply"
     /\ TheMigration.id \in last.before.committed.ledger[TheTable]) =>
        LET log == conn.log
            m == TheMigration
            insert == <<"INSERT", m.id, TheTable>>
        IN  /\ last.exc # None
            /\ conn.committed.ledger = last.before.committed.ledger
            /\ (last.exc = <<"DatabaseError", insert>>) <=>
                  (log[Len(log)] = <<"execute failed", insert>>)
            /\ last.exc = <<"DatabaseError", insert>> =>
                  /\ Count(log, {"rolling back step"}) = 0
                  /\ conn.work = conn.committed
            /\ FailedApplies(log) = {} =>
                  /\ last.exc = <<"DatabaseError", insert>>
                  /\ Count(log, {"execute failed"}) = 1
                  /\ Attempted(log, "applying step") = StepIds([steps |-> Flatten(m.steps)])
                  /\ Count(log, {"commit"}) = Len(m.steps)
                  /\ Count(log, {"rollback"}) = 0
                  /\ conn.committed.db = last.before.committed.db \o AllApplied(m)

\* C36 witness: a migration of two Transactions, applied before, applied
\* again: both statements are committed twice and the caller gets the
\* DatabaseError of the INSERT.
C36_Witness ==
    /\ last.op = "Migration.apply"
    /\ TheMigration.id \in last.before.committed.ledger[TheTable]
    /\ Len(TheMigration.steps) = 2
    /\ last.exc = <<"DatabaseError", <<"INSERT", TheMigration.id, TheTable>>>>
    /\ conn.committed.db = AllApplied(TheMigration) \o AllApplied(TheMigration)
    /\ conn.committed.ledger[TheTable] = {TheMigration.id}

====
